---- MODULE Spec2Model ----
(***************************************************************************)
(* Model of the MCP runtime of local-ai-agent: the core server             *)
(* (core/mcp/server.py), the hardened server (core/mcp/hardened.py) with   *)
(* its rate limiter (core/mcp/rate_limit.py), security middleware          *)
(* (core/mcp/security.py) and schema validator (core/mcp/validation.py),   *)
(* the server registry (core/mcp/registry.py), the client                 *)
(* (core/mcp/client.py), the transports (core/mcp/transport.py), the agent *)
(* orchestrator (agents/orchestrator.py, agents/confirmation.py) and the   *)
(* tool executor (agents/executor.py).                                     *)
(*                                                                         *)
(* Time is counted in whole seconds and tokens in whole tokens.  A frame   *)
(* is a well-formed JSON object with a string method; its id is a string   *)
(* or the value NoId (absent or null).  Metrics counters are not part of   *)
(* the state.                                                              *)
(***************************************************************************)
EXTENDS Integers, Sequences, FiniteSets, TLC

VARIABLES
    cfg,          \* RateLimitConfig + HardenedMCPServer options of this run
    now,          \* time.time(), in seconds
    clients,      \* RateLimiter._clients: client id -> RateLimitState
    admitted,     \* requests checked and admitted since tokens were last refilled
    calls,        \* what the direct caller of a RateLimiter has seen, per client
    initialized,  \* MCPServer._initialized
    session,      \* MCPServer._client_info, and what each connection's own frames did
    slots,        \* handle_message invocations: frame, position, outcome
    registry,     \* MCPServerRegistry._servers and ._tool_routes
    orch,         \* the orchestrator's AgentState and current graph node
    cli,          \* MCPClient: pending table, futures, callers, reader task
    wire,         \* one transport connection: frames read, handled, answered
    hub,          \* a MCPServerRegistry holding several servers, and one call
    execution,    \* one ToolExecutor.execute call
    trust,        \* a RiskAssessor: threshold, trust rules, trusted tools
    confirms,     \* a ConfirmationManager and the request_confirmation calls on it
    hist,         \* a metrics Histogram and the observations made on it
    gate          \* RateLimiter._tool_states and the tools/call frames admitted

vars == <<cfg, now, clients, admitted, calls, initialized, session, slots, registry, orch,
          cli, wire, hub, execution,
          trust, confirms, hist, gate>>

-----------------------------------------------------------------------------
(* Bounds *)

MaxTime == 3
MaxSleeps == 4

(* Program constants *)

PARSE_ERROR == -32700
METHOD_NOT_FOUND == -32601
INVALID_REQUEST == -32600
INTERNAL_ERROR == -32603
PERMISSION_DENIED == -32003
TIMEOUT == -32004
RATE_LIMITED == -32029
WindowSeconds == 60

Min(a, b) == IF a < b THEN a ELSE b

NoId == "null"
Ids == {"r1", "r2"}
ClientIds == {"c1"}
SlotIds == {"s1", "s2"}

-----------------------------------------------------------------------------
(* Rate limiter: core/mcp/rate_limit.py *)

\* RateLimitState(): the value a defaultdict entry starts with.
RateLimitState ==
    [tokens |-> 0, last_update |-> 0, request_count |-> 0,
     window_start |-> 0, blocked_until |-> 0]

\* The servers a run starts with.  kind: a plain MCPServer ("core") or a
\* HardenedMCPServer; the RateLimitConfig fields; the validate_inputs
\* switch; inflight: the handle_message invocations that may be in progress
\* at once; traffic: the frames the run draws from.
Configs ==
    { [kind |-> "hardened", burst_capacity |-> 1, requests_per_second |-> 1,
       requests_per_minute |-> 2, cooldown_seconds |-> 1, enabled |-> FALSE,
       validate_inputs |-> TRUE, inflight |-> {"s1"}, traffic |-> "all"],
      [kind |-> "hardened", burst_capacity |-> 1, requests_per_second |-> 1,
       requests_per_minute |-> 2, cooldown_seconds |-> 1, enabled |-> FALSE,
       validate_inputs |-> FALSE, inflight |-> {"s1"}, traffic |-> "all"],
      [kind |-> "core", burst_capacity |-> 1, requests_per_second |-> 1,
       requests_per_minute |-> 2, cooldown_seconds |-> 1, enabled |-> TRUE,
       validate_inputs |-> TRUE, inflight |-> {"s1"}, traffic |-> "all"],
      [kind |-> "hardened", burst_capacity |-> 2, requests_per_second |-> 1,
       requests_per_minute |-> 3, cooldown_seconds |-> 1, enabled |-> TRUE,
       validate_inputs |-> TRUE, inflight |-> {"s1"}, traffic |-> "basic"],
      [kind |-> "hardened", burst_capacity |-> 1, requests_per_second |-> 1,
       requests_per_minute |-> 2, cooldown_seconds |-> 0, enabled |-> TRUE,
       validate_inputs |-> TRUE, inflight |-> {"s1"}, traffic |-> "basic"],
      [kind |-> "registry", burst_capacity |-> 1, requests_per_second |-> 1,
       requests_per_minute |-> 2, cooldown_seconds |-> 1, enabled |-> TRUE,
       validate_inputs |-> TRUE, inflight |-> {"s1"}, traffic |-> "registry"] }

\* Concurrent connections to one hardened server.
RaceConfigs ==
    { [kind |-> "hardened", burst_capacity |-> b, requests_per_second |-> 1,
       requests_per_minute |-> 3, cooldown_seconds |-> 1, enabled |-> TRUE,
       validate_inputs |-> TRUE, inflight |-> {"s1", "s2"}, traffic |-> "list"] :
      b \in {1, 2} }

_refill_tokens(c, state, t) ==
    IF state.last_update = 0
    THEN [state EXCEPT !.tokens = c.burst_capacity,
                       !.last_update = t,
                       !.window_start = t]
    ELSE LET filled == [state EXCEPT
                 !.tokens = Min(c.burst_capacity,
                                state.tokens + (t - state.last_update) * c.requests_per_second),
                 !.last_update = t]
         IN  IF t - filled.window_start >= WindowSeconds
             THEN [filled EXCEPT !.request_count = 0, !.window_start = t]
             ELSE filled

\* A check_limit without the cooldown test.
check_limit_no_cooldown(c, state, t) ==
    LET filled == _refill_tokens(c, state, t)
    IN  IF filled.tokens < 1
        THEN [allowed |-> FALSE, retry_after |-> <<c.cooldown_seconds>>,
              state |-> [filled EXCEPT !.blocked_until = t + c.cooldown_seconds]]
        ELSE IF filled.request_count >= c.requests_per_minute
        THEN [allowed |-> FALSE,
              retry_after |-> <<WindowSeconds - (t - filled.window_start)>>,
              state |-> filled]
        ELSE [allowed |-> TRUE, retry_after |-> <<>>, state |-> filled]

\* check_limit(client_id): the verdict, retry_after (<<>> is None) and the
\* state it leaves.  The hardened server passes no tool name.
check_limit(c, state, t) ==
    IF ~c.enabled
    THEN [allowed |-> TRUE, retry_after |-> <<>>, state |-> state]
    ELSE IF state.blocked_until > t
    THEN [allowed |-> FALSE, retry_after |-> <<state.blocked_until - t>>, state |-> state]
    ELSE LET filled == _refill_tokens(c, state, t)
         IN  IF filled.tokens < 1
             THEN [allowed |-> FALSE, retry_after |-> <<c.cooldown_seconds>>,
                   state |-> [filled EXCEPT !.blocked_until = t + c.cooldown_seconds]]
             ELSE IF filled.request_count >= c.requests_per_minute
             THEN \* max(retry_after, 0.1): in whole seconds the left side is
                  \* at least 1, the window having been reset otherwise.
                  [allowed |-> FALSE,
                   retry_after |-> <<WindowSeconds - (t - filled.window_start)>>,
                   state |-> filled]
             ELSE [allowed |-> TRUE, retry_after |-> <<>>, state |-> filled]

consume(c, state) ==
    IF ~c.enabled
    THEN state
    ELSE [state EXCEPT !.tokens = @ - 1, !.request_count = @ + 1]

-----------------------------------------------------------------------------
(* Schema validator: core/mcp/validation.py *)

\* Tool arguments: a JSON object, as a set of <<field, JSON type>> pairs.
ArgValues ==
    { {},
      {<<"message", "string">>},
      {<<"message", "integer">>} }

Fields(data) == {p[1] : p \in data}

\* TYPE_MAP and isinstance: an integer is also a number.
TypeAccepts(expected, actual) ==
    \/ expected = actual
    \/ expected = "number" /\ actual = "integer"

_validate_field(name, actual, types) ==
    IF actual = "null"
    THEN IF "null" \in types THEN {} ELSE {<<"null", name>>}
    ELSE IF types # {} /\ ~(\E e \in types : TypeAccepts(e, actual))
    THEN {<<"type", name>>}
    ELSE {}

\* SchemaValidator.validate: the set of errors ('valid' is errors = {}).
validate(schema, data) ==
    {<<"missing", f>> : f \in schema.required \ Fields(data)}
    \cup {<<"unknown", p[1]>> :
            p \in {q \in data : q[1] \notin DOMAIN schema.properties
                                /\ schema.additionalProperties = FALSE}}
    \cup UNION {_validate_field(p[1], p[2], schema.properties[p[1]]) :
            p \in {q \in data : q[1] \in DOMAIN schema.properties}}

-----------------------------------------------------------------------------
(* Registered tools: MCPServer.tools / tool_definitions *)

Tools == {"echo", "boom", "slow"}
ToolNames == Tools \cup {"ghost"}

\* What the registered handler does once its body runs.
HandlerOutcome(tool) ==
    CASE tool = "echo" -> "ok"
      [] tool = "boom" -> "raise"
      [] tool = "slow" -> "hang"

\* tool_definitions[tool].input_schema
InputSchema(tool) ==
    [required |-> {"message"},
     properties |-> [message |-> {"string"}],
     additionalProperties |-> (tool # "boom")]

\* handler(**arguments) binds the arguments to the parameter 'message'.
HandlerBinds(tool, args) == Fields(args) = {"message"}

\* call_tool without its 'except Exception': a raising handler's exception
\* leaves call_tool.
call_tool_no_except(tool, args) ==
    IF tool \notin Tools
    THEN [is_error |-> TRUE, text |-> "Tool not found", ran |-> FALSE,
          raised |-> FALSE, hung |-> FALSE]
    ELSE IF ~HandlerBinds(tool, args)
    THEN [is_error |-> FALSE, text |-> "", ran |-> FALSE,
          raised |-> TRUE, hung |-> FALSE]
    ELSE IF HandlerOutcome(tool) = "raise"
    THEN [is_error |-> FALSE, text |-> "", ran |-> TRUE,
          raised |-> TRUE, hung |-> FALSE]
    ELSE [is_error |-> FALSE, text |-> "output", ran |-> TRUE,
          raised |-> FALSE, hung |-> HandlerOutcome(tool) = "hang"]

\* MCPServer.call_tool: the ToolResult; 'ran' says the handler's body ran,
\* 'raised' that an exception left call_tool, 'hung' that the handler has
\* not returned when the caller's timeout expires.
call_tool(tool, args) ==
    IF tool \notin Tools
    THEN [is_error |-> TRUE, text |-> "Tool not found", ran |-> FALSE,
          raised |-> FALSE, hung |-> FALSE]
    ELSE IF ~HandlerBinds(tool, args)
    THEN [is_error |-> TRUE, text |-> "TypeError", ran |-> FALSE,
          raised |-> FALSE, hung |-> FALSE]
    ELSE IF HandlerOutcome(tool) = "raise"
    THEN [is_error |-> TRUE, text |-> "handler error", ran |-> TRUE,
          raised |-> FALSE, hung |-> FALSE]
    ELSE [is_error |-> FALSE, text |-> "output", ran |-> TRUE,
          raised |-> FALSE, hung |-> HandlerOutcome(tool) = "hang"]

\* HardenedMCPServer.call_tool with the validation step left out.
call_tool_unvalidated(c, tool, args) == call_tool(tool, args)

\* HardenedMCPServer.call_tool: validation, then the core call_tool.
hardened_call_tool(c, tool, args) ==
    IF c.validate_inputs /\ tool \in Tools /\ validate(InputSchema(tool), args) # {}
    THEN [is_error |-> TRUE, text |-> "Validation error", ran |-> FALSE,
          raised |-> FALSE, hung |-> FALSE]
    ELSE call_tool(tool, args)

-----------------------------------------------------------------------------
(* Security middleware: core/mcp/security.py *)

ROLE_USER ==
    [permissions |-> {"tools:list", "tools:call", "resources:list",
                      "resources:read", "prompts:list", "prompts:get"},
     tool_whitelist |-> <<>>, tool_blacklist |-> {}]

ROLE_READONLY ==
    [permissions |-> {"tools:list", "resources:list", "resources:read",
                      "prompts:list", "prompts:get"},
     tool_whitelist |-> <<>>, tool_blacklist |-> {}]

\* A role with both lists set: 'boom' is denied by the denylist, 'slow' and
\* 'ghost' by their absence from the allowlist.
ROLE_RESTRICTED ==
    [permissions |-> ROLE_USER.permissions,
     tool_whitelist |-> <<{"echo", "boom"}>>, tool_blacklist |-> {"boom"}]

\* The credentials a frame arrives with; "anon" are credentials the
\* provider rejects.
Creds == {"user", "readonly", "restricted", "anon"}

\* SecurityMiddleware.authenticate: the AuthContext (role <<>> is None).
authenticate(cred) ==
    CASE cred = "user" -> [authenticated |-> TRUE, role |-> <<ROLE_USER>>]
      [] cred = "readonly" -> [authenticated |-> TRUE, role |-> <<ROLE_READONLY>>]
      [] cred = "restricted" -> [authenticated |-> TRUE, role |-> <<ROLE_RESTRICTED>>]
      [] OTHER -> [authenticated |-> FALSE, role |-> <<>>]

has_permission(ctx, permission) ==
    /\ ctx.authenticated
    /\ ctx.role # <<>>
    /\ permission \in ctx.role[1].permissions

\* can_call_tool with the denylist test left out.
can_call_tool_no_denylist(ctx, tool_name) ==
    IF ~has_permission(ctx, "tools:call") THEN FALSE
    ELSE IF ctx.role[1].tool_whitelist # <<>>
    THEN tool_name \in ctx.role[1].tool_whitelist[1]
    ELSE TRUE

can_call_tool(ctx, tool_name) ==
    IF ~has_permission(ctx, "tools:call") THEN FALSE
    ELSE IF tool_name \in ctx.role[1].tool_blacklist THEN FALSE
    ELSE IF ctx.role[1].tool_whitelist # <<>>
    THEN tool_name \in ctx.role[1].tool_whitelist[1]
    ELSE TRUE

\* SecurityMiddleware.authorize; resource <<>> is None.
authorize(ctx, permission, resource) ==
    IF ~ctx.authenticated THEN FALSE
    ELSE IF permission = "tools:call" /\ resource # <<>>
    THEN can_call_tool(ctx, resource[1])
    ELSE has_permission(ctx, permission)

\* method_permissions of HardenedMCPServer._check_authorization
MethodPermission(method) ==
    CASE method = "tools/list" -> <<"tools:list">>
      [] method = "tools/call" -> <<"tools:call">>
      [] method = "resources/list" -> <<"resources:list">>
      [] method = "resources/read" -> <<"resources:read">>
      [] method = "prompts/list" -> <<"prompts:list">>
      [] method = "prompts/get" -> <<"prompts:get">>
      [] OTHER -> <<>>

_check_authorization(ctx, frame) ==
    IF MethodPermission(frame.method) = <<>>
    THEN TRUE
    ELSE authorize(ctx, MethodPermission(frame.method)[1],
                   IF frame.method = "tools/call" THEN <<frame.name>> ELSE <<>>)

-----------------------------------------------------------------------------
(* Frames and responses *)

\* Names with a "." in them, as <<part before the first ".", rest, name>>.
NameTable ==
    { <<"fs", "echo", "fs.echo">>, <<"fs", "boom", "fs.boom">>,
      <<"fs", "slow", "fs.slow">>, <<"fs", "ghost", "fs.ghost">>,
      <<"zz", "echo", "zz.echo">> }

DottedNames == {r[3] : r \in NameTable}

\* f"{server_name}.{tool_name}"
Join(server, tool) == (CHOOSE r \in NameTable : r[1] = server /\ r[2] = tool)[3]

\* tool_name.split(".", 1)
Split(name) == LET r == CHOOSE q \in NameTable : q[3] = name IN <<r[1], r[2]>>

\* MCPServer._method_handlers
MethodHandlers ==
    {"initialize", "shutdown", "tools/list", "tools/call", "resources/list",
     "resources/read", "prompts/list", "prompts/get", "logging/setLevel"}

\* The methods of the frames a run draws from.
Methods ==
    {"initialize", "shutdown", "tools/list", "tools/call", "resources/read",
     "logging/setLevel", "notifications/initialized", "bogus/method"}

\* Methods that are not part of the lifecycle handshake.
NonLifecycle ==
    MethodHandlers \ {"initialize", "shutdown"}

\* Two WebSocket connections to one plain server: the transport hands every
\* connection's frames to the same handle_message.
ConnConfigs ==
    { [kind |-> "core", burst_capacity |-> 1, requests_per_second |-> 1,
       requests_per_minute |-> 2, cooldown_seconds |-> 1, enabled |-> TRUE,
       validate_inputs |-> TRUE, inflight |-> {"s1", "s2"},
       traffic |-> "lifecycle"] }

\* A RateLimiter used on its own: check_limit, then consume when allowed.
LimiterConfigs ==
    { [kind |-> "limiter", burst_capacity |-> 2, requests_per_second |-> 1,
       requests_per_minute |-> 2, cooldown_seconds |-> 2, enabled |-> TRUE,
       validate_inputs |-> TRUE, inflight |-> {}, traffic |-> "none"] }

NoName == "-"

\* params of a frame: the tool, resource or prompt it names and the tool
\* arguments.  The server registers a resource and a prompt under each
\* tool's name, with that tool's handler behaviour.
FrameParams(method) ==
    IF method = "tools/call" THEN (ToolNames \cup DottedNames) \X ArgValues
    ELSE IF method \in {"resources/read", "prompts/get"} THEN ToolNames \X {{}}
    ELSE {<<NoName, {}>>}

\* The credentials that tell the outcomes of a method apart.
FrameCreds(method) ==
    IF method = "tools/call" THEN Creds
    ELSE IF MethodPermission(method) # <<>> THEN {"user", "anon"}
    ELSE {"user"}

AllFrames ==
    UNION { { [id |-> i, method |-> m, name |-> p[1], args |-> p[2], cred |-> k] :
                i \in Ids \cup {NoId}, p \in FrameParams(m), k \in FrameCreds(m) } :
            m \in Methods }

\* The frames sent to a server: no dotted tool names.
Frames == {f \in AllFrames : f.name \notin DottedNames}

\* The frames sent to the registry.
RegistryFrames ==
    {f \in AllFrames :
        /\ f.cred = "user"
        /\ f.method \in {"initialize", "tools/list", "tools/call",
                          "notifications/initialized", "bogus/method"}
        /\ f.name \notin {"slow", "fs.slow"}}

\* The frames of a run that exercises the rate limiter.
BasicFrames ==
    {f \in Frames :
        \/ f.method \in {"tools/list", "notifications/initialized"}
        \/ /\ f.method = "tools/call"
           /\ f.name = "echo"
           /\ f.args = {<<"message", "string">>}
           /\ f.cred \in {"user", "readonly"}}

\* The frames of a run with concurrent connections.
ListFrames ==
    {f \in Frames : f.method = "tools/list" /\ f.cred = "user"}

\* The frames of a connection's life: the handshake, a tool call, shutdown.
LifecycleFrames ==
    {f \in Frames :
        /\ f.cred = "user"
        /\ \/ f.id = "r1" /\ f.method \in {"initialize", "shutdown"}
           \/ f.id = NoId /\ f.method = "notifications/initialized"
           \/ /\ f.id = "r1"
              /\ f.method = "tools/call"
              /\ f.name = "echo"
              /\ f.args = {<<"message", "string">>}}

Traffic(c) ==
    CASE c.traffic = "all" -> Frames
      [] c.traffic = "lifecycle" -> LifecycleFrames
      [] c.traffic = "basic" -> BasicFrames
      [] c.traffic = "registry" -> RegistryFrames
      [] OTHER -> ListFrames

\* JSONRPCResponse: an error (code), or a result (code 0) that carries the
\* ToolResult of a tools/call in 'tool'.
ErrorResponse(id, code) ==
    [id |-> id, code |-> code, retry_after |-> <<>>, tool |-> <<>>]

ResultResponse(id, tool) ==
    [id |-> id, code |-> 0, retry_after |-> <<>>, tool |-> tool]

-----------------------------------------------------------------------------
(* Core server: core/mcp/server.py *)

\* What a method handler does: 'raised' says it raised, 'tool' is the
\* ToolResult of a tools/call, 'ran' the registered handlers whose body ran.
\* kind is "core" or "hardened": the hardened server overrides call_tool.
MethodHandler(kind, c, frame, inited) ==
    LET quiet == [raised |-> FALSE, hung |-> FALSE, tool |-> <<>>, ran |-> {},
                  inited |-> inited]
        named == [raised |-> frame.name \notin Tools
                             \/ HandlerOutcome(frame.name) = "raise",
                  hung |-> frame.name \in Tools /\ HandlerOutcome(frame.name) = "hang",
                  tool |-> <<>>,
                  ran |-> IF frame.name \in Tools THEN {frame.name} ELSE {},
                  inited |-> inited]
        tr == IF kind = "hardened"
              THEN hardened_call_tool(c, frame.name, frame.args)
              ELSE call_tool(frame.name, frame.args)
    IN  CASE frame.method = "shutdown" -> [quiet EXCEPT !.inited = FALSE]
          [] frame.method = "tools/call" ->
                [raised |-> tr.raised, hung |-> tr.hung,
                 tool |-> IF tr.raised THEN <<>>
                          ELSE <<[is_error |-> tr.is_error, text |-> tr.text]>>,
                 ran |-> IF tr.ran THEN {frame.name} ELSE {},
                 inited |-> inited]
          [] frame.method \in {"resources/read", "prompts/get"} -> named
          [] OTHER -> quiet

\* MCPServer._handle_request
_handle_request(kind, c, frame, inited) ==
    IF frame.method \notin MethodHandlers
    THEN [out |-> <<ErrorResponse(frame.id, METHOD_NOT_FOUND)>>, inited |-> inited,
          ran |-> {}, hung |-> FALSE, dispatched |-> FALSE]
    ELSE LET h == MethodHandler(kind, c, frame, inited)
         IN  [out |-> IF h.raised
                      THEN <<ErrorResponse(frame.id, INTERNAL_ERROR)>>
                      ELSE <<ResultResponse(frame.id, h.tool)>>,
              inited |-> h.inited, ran |-> h.ran, hung |-> h.hung,
              dispatched |-> TRUE]

\* MCPServer._handle_notification
_handle_notification(frame, inited) ==
    IF frame.method = "notifications/initialized" THEN TRUE ELSE inited

\* MCPServer.handle_message: the frames it returns (out), the session flag
\* it leaves, whether a method handler was dispatched and which registered
\* handlers ran.
handle_message(kind, c, frame, inited) ==
    IF frame.id = NoId
    THEN [out |-> <<>>, inited |-> _handle_notification(frame, inited),
          ran |-> {}, hung |-> FALSE, dispatched |-> FALSE]
    ELSE _handle_request(kind, c, frame, inited)

-----------------------------------------------------------------------------
(* Hardened server: core/mcp/hardened.py *)

\* A timeout response that drops the request id.
_timeout_response_no_id(id) ==
    [id |-> NoId, code |-> TIMEOUT, retry_after |-> <<>>, tool |-> <<>>]

_rate_limit_response(id, retry_after) ==
    [id |-> id, code |-> RATE_LIMITED,
     retry_after |-> IF retry_after # <<>> /\ retry_after[1] # 0
                     THEN retry_after ELSE <<>>,
     tool |-> <<>>]

_unauthorized_response(id) == ErrorResponse(id, PERMISSION_DENIED)

_timeout_response(id) == ErrorResponse(id, TIMEOUT)

-----------------------------------------------------------------------------
(* Registry: core/mcp/registry.py *)

\* MCPServerRegistry(): no servers, no routes.  tool_routes is a set of
\* <<tool name, server name>> pairs with one pair per tool name.
EmptyRegistry == [servers |-> {}, tool_routes |-> {}]

\* The one MCPServer put behind the registry: its name.
ServerName == "srv"

\* The prefixes a server is registered under (<<>> is None).
Prefixes == {<<>>, <<"fs">>}

Route(reg, name) == (CHOOSE r \in reg.tool_routes : r[1] = name)[2]

Routed(reg) == {r[1] : r \in reg.tool_routes}

\* register_server(server, prefix): the server registers Tools.
register_server(reg, prefix) ==
    LET server_name == IF prefix # <<>> THEN prefix[1] ELSE ServerName
        names == Tools \cup
                 (IF prefix # <<>> THEN {Join(server_name, t) : t \in Tools} ELSE {})
    IN  [servers |-> reg.servers \cup {server_name},
         tool_routes |-> {r \in reg.tool_routes : r[1] \notin names}
                         \cup {<<n, server_name>> : n \in names}]

unregister_server(reg, name) ==
    IF name \notin reg.servers
    THEN reg
    ELSE [servers |-> reg.servers \ {name},
          tool_routes |-> {r \in reg.tool_routes : r[2] # name}]

\* The tool name the sub-server is called with.
ResolvedTool(reg, name) ==
    IF name \in DottedNames /\ Split(name)[1] \in reg.servers
    THEN Split(name)[2]
    ELSE name

\* MCPServerRegistry.call_tool; 'raised' is a KeyError on _servers.
registry_call_tool(reg, name, args) ==
    IF name \in DottedNames /\ Split(name)[1] \in reg.servers
    THEN call_tool(Split(name)[2], args)
    ELSE IF name \in Routed(reg)
    THEN IF Route(reg, name) \in reg.servers
         THEN call_tool(name, args)
         ELSE [is_error |-> FALSE, text |-> "", ran |-> FALSE,
               raised |-> TRUE, hung |-> FALSE]
    ELSE [is_error |-> TRUE, text |-> "Tool not found", ran |-> FALSE,
          raised |-> FALSE, hung |-> FALSE]

\* MCPServerRegistry.handle_message: the frames it returns, or 'raised'
\* when an exception leaves it.
registry_handle_message(reg, frame) ==
    LET tr == registry_call_tool(reg, frame.name, frame.args)
    IN  CASE frame.method \in {"initialize", "tools/list", "resources/list",
                                "prompts/list"} ->
                [out |-> <<ResultResponse(frame.id, <<>>)>>, ran |-> {},
                 raised |-> FALSE, dispatched |-> TRUE]
          [] frame.method = "tools/call" ->
                [out |-> IF tr.raised THEN <<>>
                         ELSE <<ResultResponse(frame.id,
                                    <<[is_error |-> tr.is_error, text |-> tr.text]>>)>>,
                 ran |-> IF tr.ran THEN {ResolvedTool(reg, frame.name)} ELSE {},
                 raised |-> tr.raised, dispatched |-> TRUE]
          [] OTHER ->
                [out |-> <<ErrorResponse(frame.id, METHOD_NOT_FOUND)>>, ran |-> {},
                 raised |-> FALSE, dispatched |-> FALSE]

-----------------------------------------------------------------------------
(* Risk classification: agents/confirmation.py *)

\* RiskLevel, in the order of _level_to_int.
RiskLevels == <<"safe", "low", "medium", "high", "critical">>

_level_to_int(level) == (CHOOSE i \in 1..Len(RiskLevels) : RiskLevels[i] = level) - 1

\* ToolRiskRegistry.TOOL_RISKS, the entries of the tools that plans use.
TOOL_RISKS ==
    { <<"filesystem.read_file", "safe">>,
      <<"filesystem.delete_file", "high">>,
      <<"terminal.execute_command", "medium">>,
      <<"git.force_push", "critical">> }

\* cls.TOOL_RISKS[tool] if tool in cls.TOOL_RISKS else RiskLevel.MEDIUM
base_risk(tool) ==
    IF \E r \in TOOL_RISKS : r[1] = tool
    THEN (CHOOSE r \in TOOL_RISKS : r[1] = tool)[2]
    ELSE "medium"

\* tool.startswith("terminal.")
IsTerminalTool(tool) == tool = "terminal.execute_command"

\* What a step's arguments hold: nothing of note, a command with "rm" in
\* it, or a value with "sudo" in it.
ArgKinds == {"plain", "rm", "sudo"}

\* ToolRiskRegistry.get_risk
get_risk(tool, args) ==
    LET base == IF \E r \in TOOL_RISKS : r[1] = tool
                THEN (CHOOSE r \in TOOL_RISKS : r[1] = tool)[2]
                ELSE "medium"
    IN  IF IsTerminalTool(tool) /\ args \in {"rm", "sudo"} THEN "high"
        ELSE IF args = "sudo" THEN "high"
        ELSE base

\* RiskAssessor(): confirmation_threshold and _trusted_tools as constructed.
DefaultAssessor ==
    [confirmation_threshold |-> "medium", trust_rules |-> {}, trusted_tools |-> {}]

\* A key a trust rule does not have.
Absent == "absent"

\* tool.startswith(prefix), for the prefixes that trust rules use.
tool_startswith(tool, prefix) ==
    <<tool, prefix>> \in { <<"filesystem.read_file", "filesystem.read">>,
                          <<"filesystem.read_file", "filesystem.">>,
                          <<"filesystem.delete_file", "filesystem.">>,
                          <<"terminal.execute_command", "terminal.">>,
                          <<"git.force_push", "git.">> }

\* RiskAssessor._matches_rule; a rule's "arguments" holds the one item
\* that the arguments of that kind hold.
_matches_rule(rule, tool, args) ==
    /\ rule.tool = Absent \/ rule.tool = tool
    /\ rule.tool_prefix = Absent \/ tool_startswith(tool, rule.tool_prefix)
    /\ rule.arguments = Absent \/ rule.arguments = args

\* RiskAssessor._is_trusted
_is_trusted(assessor, tool, args) ==
    \/ tool \in assessor.trusted_tools
    \/ \E rule \in assessor.trust_rules : _matches_rule(rule, tool, args)

\* RiskAssessor.assess(tool, arguments).requires_confirmation
assess(assessor, tool, args) ==
    IF _is_trusted(assessor, tool, args)
    THEN FALSE
    ELSE _level_to_int(get_risk(tool, args))
            >= _level_to_int(assessor.confirmation_threshold)

\* The tools that are assessed, trusted and untrusted; "custom.tool" has no
\* entry in TOOL_RISKS.
RiskTools ==
    {"filesystem.read_file", "terminal.execute_command", "git.force_push", "custom.tool"}

\* The trust_rules lists a RiskAssessor is constructed with.
TrustRuleLists ==
    LET read == [tool |-> Absent, tool_prefix |-> "filesystem.read", arguments |-> Absent]
        plain == [tool |-> "terminal.execute_command", tool_prefix |-> Absent,
                  arguments |-> "plain"]
    IN  { {}, {read}, {plain}, {read, plain} }

\* RiskAssessor.__init__.  asked[t] is the last of trust_tool(t) and
\* untrust_tool(t) that was called, before[t] what assess said of t, per
\* arguments, when trust_tool(t) first added it, last the last assess call.
NewAssessor(confirmation_threshold, trust_rules) ==
    [pc |-> "assessor", confirmation_threshold |-> confirmation_threshold,
     trust_rules |-> trust_rules, trusted_tools |-> {},
     asked |-> [t \in RiskTools |-> "none"],
     before |-> [t \in RiskTools |-> <<>>],
     last |-> <<>>]

\* RiskAssessor.trust_tool
trust_tool(tool) ==
    /\ trust.pc = "assessor"
    /\ trust' = [trust EXCEPT
                    !.trusted_tools = @ \cup {tool},
                    !.asked[tool] = "trust",
                    !.before[tool] =
                        IF tool \in trust.trusted_tools THEN @
                        ELSE <<[a \in ArgKinds |-> assess(trust, tool, a)]>>,
                    !.last = <<>>]
    /\ UNCHANGED <<cfg, now, clients, admitted, calls, initialized, session, slots,
                   registry, orch, cli, wire, hub, execution, confirms, hist, gate>>

\* RiskAssessor.untrust_tool that leaves the set as it is.
untrust_tool_keeps(tool) ==
    /\ trust.pc = "assessor"
    /\ trust' = [trust EXCEPT !.asked[tool] = "untrust", !.last = <<>>]
    /\ UNCHANGED <<cfg, now, clients, admitted, calls, initialized, session, slots,
                   registry, orch, cli, wire, hub, execution, confirms, hist, gate>>

\* RiskAssessor.untrust_tool
untrust_tool(tool) ==
    /\ trust.pc = "assessor"
    /\ trust' = [trust EXCEPT
                    !.trusted_tools = @ \ {tool},
                    !.asked[tool] = "untrust",
                    !.last = <<>>]
    /\ UNCHANGED <<cfg, now, clients, admitted, calls, initialized, session, slots,
                   registry, orch, cli, wire, hub, execution, confirms, hist, gate>>

\* One RiskAssessor.assess(tool, arguments) call and the RiskAssessment it
\* returns.
Assess(tool, args) ==
    /\ trust.pc = "assessor"
    /\ trust' = [trust EXCEPT
                    !.last = <<[tool |-> tool, args |-> args,
                                level |-> get_risk(tool, args),
                                requires_confirmation |-> assess(trust, tool, args)]>>]
    /\ UNCHANGED <<cfg, now, clients, admitted, calls, initialized, session, slots,
                   registry, orch, cli, wire, hub, execution, confirms, hist, gate>>

-----------------------------------------------------------------------------
(* Orchestrator: agents/orchestrator.py *)

MaxPlanLen == 2
MaxRetriesLimit == 1

\* The steps the planner's answers are made of; "unknown" is the step of
\* _parse_plan's fallback.
StepChoices ==
    { [tool |-> "filesystem.read_file", args |-> "plain"],
      [tool |-> "filesystem.delete_file", args |-> "plain"],
      [tool |-> "unknown", args |-> "plain"] }

Plans == UNION {[1..n -> StepChoices] : n \in 0..MaxPlanLen}

\* An orchestrator as constructed, with the AgentState that run() starts
\* from.  manager: no confirmation manager, or one that approves or denies.
\* invoked: every tool invocation made so far, with whether a confirmation
\* had been approved when it was made.
NewOrchestrator(manager, max_retries) ==
    [node |-> "idle", manager |-> manager, max_retries |-> max_retries,
     plan |-> <<>>, current_step |-> 0, tool_calls |-> <<>>,
     tool_results |-> <<>>, errors |-> <<>>,
     retry_count |-> 0, verification_passed |-> FALSE,
     requires_confirmation |-> FALSE, user_approved |-> <<>>,
     status |-> "planning", invoked |-> {}]

_plan_task(st, plan) ==
    [st EXCEPT !.plan = plan, !.current_step = 0, !.status = "planning"]

\* _execute_step; outcome says whether the tool executor returned or raised.
_execute_step(st, outcome) ==
    IF st.current_step >= Len(st.plan)
    THEN st
    ELSE LET step == st.plan[st.current_step + 1]
         IN  [st EXCEPT
                 !.tool_calls = Append(@, [step_id |-> st.current_step,
                                           tool |-> step.tool,
                                           error |-> outcome = "raise"]),
                 !.tool_results = Append(@, IF outcome = "raise" THEN "error"
                                            ELSE "result"),
                 !.errors = IF outcome = "raise"
                            THEN Append(@, [step_id |-> st.current_step,
                                            error_type |-> "Exception"])
                            ELSE @,
                 !.current_step = @ + 1,
                 !.status = "executing",
                 !.invoked = @ \cup {[tool |-> step.tool, args |-> step.args,
                                      approved |-> st.user_approved = <<TRUE>>]}]

_verify_result(st, passed) ==
    [st EXCEPT !.verification_passed = passed, !.status = "verifying"]

\* A retry that also forgets the errors recorded so far.
_prepare_retry_clearing_errors(st) ==
    [st EXCEPT !.retry_count = @ + 1, !.status = "retrying", !.plan = <<>>,
               !.current_step = 0, !.tool_calls = <<>>, !.tool_results = <<>>,
               !.errors = <<>>]

_prepare_retry(st) ==
    [st EXCEPT !.retry_count = @ + 1, !.status = "retrying", !.plan = <<>>,
               !.current_step = 0, !.tool_calls = <<>>, !.tool_results = <<>>]

\* _request_confirmation; decision is the manager's answer.
_request_confirmation(st, decision) ==
    [st EXCEPT !.user_approved = IF st.manager = "none" THEN <<FALSE>>
                                 ELSE <<decision>>,
               !.status = "awaiting_confirmation"]

\* A summary that lets the recorded tool errors decide.
_summarize_results_by_errors(st) ==
    [st EXCEPT !.status = IF st.errors = <<>> THEN "complete" ELSE "failed"]

_summarize_results(st) ==
    [st EXCEPT !.status =
        IF st.verification_passed THEN "complete"
        ELSE IF st.retry_count >= st.max_retries THEN "failed"
        ELSE IF st.user_approved = <<FALSE>> THEN "failed"
        ELSE "complete"]

_route_after_execute(st) ==
    IF st.requires_confirmation THEN "confirm"
    ELSE IF st.current_step < Len(st.plan) THEN "execute"
    ELSE "verify"

\* A routing that resumes execution whatever the answer.
_route_after_confirm_always_execute(st) == "execute"

_route_after_confirm(st) ==
    IF st.user_approved = <<TRUE>> THEN "execute" ELSE "summarize"

\* A routing that retries whatever the count.
_route_after_verify_no_limit(st) ==
    IF st.verification_passed THEN "summarize" ELSE "retry"

_route_after_verify(st) ==
    IF st.verification_passed THEN "summarize"
    ELSE IF st.retry_count >= st.max_retries THEN "summarize"
    ELSE "retry"

\* The run raised: the exception leaves graph.ainvoke and run(), the caller
\* gets no AgentState; the invocations made stay made.
Raised(st) ==
    [NewOrchestrator(st.manager, st.max_retries) EXCEPT
        !.node = "raised", !.invoked = st.invoked]

\* One node of the compiled graph and the edge that leaves it.  fault: the
\* LLM call of the node (the confirmation manager, in confirm) raises; no
\* node catches it, graph.ainvoke and run() raise it to the caller.  kept:
\* whether the assignment _route_after_confirm makes to the state it was
\* handed reaches the state the next node gets; a routing function returns
\* the name of an edge, and the graph library decides what becomes of its
\* argument.
GraphNode(st, plan, outcome, passed, decision, fault, kept) ==
    IF fault THEN Raised(st) ELSE
    CASE st.node = "plan" ->
            [_plan_task(st, plan) EXCEPT !.node = "execute"]
      [] st.node = "execute" ->
            LET n == _execute_step(st, outcome)
            IN  [n EXCEPT !.node = _route_after_execute(n)]
      [] st.node = "confirm" ->
            LET n == _request_confirmation(st, decision)
            IN  [n EXCEPT !.node = _route_after_confirm(n),
                          !.requires_confirmation =
                              IF n.user_approved = <<TRUE>> /\ kept
                              THEN FALSE ELSE @]
      [] st.node = "verify" ->
            LET n == _verify_result(st, passed)
            IN  [n EXCEPT !.node = _route_after_verify(n)]
      [] st.node = "retry" ->
            [_prepare_retry(st) EXCEPT !.node = "plan"]
      [] st.node = "summarize" ->
            [_summarize_results(st) EXCEPT !.node = "end"]

-----------------------------------------------------------------------------
(* Actions *)

\* The session state of a server nobody has talked to.  client_info is
\* MCPServer._client_info, the clientInfo of the last initialize, told apart
\* by the connection that sent it.  own[k] records what connection k's own
\* frames did: the flag and the client info they leave when applied to a
\* state of k's own, and whether a shutdown request of k has been handled.
NewSession ==
    [client_info |-> <<>>,
     own |-> [k \in SlotIds |->
                [initialized |-> FALSE, client_info |-> <<>>, shutdown |-> FALSE]]]

\* MCPServer._handle_initialize stores the client's info.
_handle_initialize(k, frame, r, info) ==
    IF r.dispatched /\ frame.method = "initialize" THEN <<k>> ELSE info

\* The session after connection k's frame went through handle_message with
\* outcome r.
SessionAfter(k, frame, r) ==
    LET mine == session.own[k]
        alone == handle_message(cfg.kind, cfg, frame, mine.initialized)
    IN  [client_info |-> _handle_initialize(k, frame, r, session.client_info),
         own |-> [session.own EXCEPT ![k] =
                    [initialized |-> alone.inited,
                     client_info |-> _handle_initialize(k, frame, r, mine.client_info),
                     shutdown |-> mine.shutdown
                                  \/ (r.dispatched /\ frame.method = "shutdown")]]]

\* A handle_message invocation that has not started.
IdleSlot ==
    [pc |-> "idle",
     frame |-> [id |-> NoId, method |-> "bogus/method", name |-> NoName,
                args |-> {}, cred |-> "user"],
     client |-> "c1", out |-> <<>>, ran |-> {}, dispatched |-> FALSE,
     pre_inited |-> FALSE, pre_shutdown |-> FALSE, limited |-> FALSE,
     denied |-> FALSE,
     timed_out |-> FALSE, raised |-> FALSE, fresh |-> FALSE]

\* HardenedMCPServer.handle_message up to 'await self.security.authenticate':
\* parse, check_limit, and the rate-limit response when the check fails.
HardenedReceive(s, frame, client) ==
    /\ cfg.kind = "hardened"
    /\ slots[s].pc \in {"idle", "done"}
    /\ LET chk == check_limit(cfg, clients[client], now)
       IN  /\ clients' = [clients EXCEPT ![client] = chk.state]
           /\ slots' = [slots EXCEPT ![s] =
                  IF chk.allowed
                  THEN [IdleSlot EXCEPT !.pc = "auth", !.frame = frame,
                                          !.client = client, !.fresh = TRUE]
                  ELSE [IdleSlot EXCEPT !.pc = "done", !.frame = frame,
                                          !.client = client, !.limited = TRUE,
                                          !.out = <<_rate_limit_response(frame.id,
                                                        chk.retry_after)>>]]
    /\ UNCHANGED <<cfg, calls, now, admitted, initialized, session, registry, orch,
                 cli, wire, hub, execution,
                 trust, confirms, hist, gate>>

\* The rest of HardenedMCPServer.handle_message: authenticate, authorize,
\* consume, dispatch to MCPServer.handle_message under the request timeout.
HardenedResume(s) ==
    /\ slots[s].pc = "auth"
    /\ LET sl == slots[s]
           ctx == authenticate(sl.frame.cred)
       IN  IF ~_check_authorization(ctx, sl.frame)
           THEN /\ slots' = [slots EXCEPT ![s] =
                       [sl EXCEPT !.pc = "done", !.denied = TRUE,
                                  !.out = <<_unauthorized_response(sl.frame.id)>>]]
                /\ UNCHANGED <<clients, admitted, initialized, session>>
           ELSE LET r == handle_message("hardened", cfg, sl.frame, initialized)
                IN  /\ clients' = [clients EXCEPT ![sl.client] = consume(cfg, @)]
                    /\ admitted' = IF cfg.enabled /\ sl.fresh
                                   THEN admitted + 1 ELSE admitted
                    /\ initialized' = r.inited
                    /\ session' = SessionAfter(s, sl.frame, r)
                    /\ slots' = [slots EXCEPT ![s] =
                           [sl EXCEPT !.pc = "done",
                                      !.pre_inited = initialized,
                                      !.pre_shutdown = session.own[s].shutdown,
                                      !.dispatched = r.dispatched,
                                      !.ran = r.ran,
                                      !.timed_out = r.hung,
                                      !.out = IF r.hung
                                              THEN <<_timeout_response(sl.frame.id)>>
                                              ELSE r.out]]
    /\ UNCHANGED <<cfg, calls, now, registry, orch,
                 cli, wire, hub, execution,
                 trust, confirms, hist, gate>>

\* MCPServer.handle_message of a plain (not hardened) server.
CoreHandle(s, frame) ==
    /\ cfg.kind = "core"
    /\ slots[s].pc \in {"idle", "done"}
    /\ LET r == handle_message("core", cfg, frame, initialized)
       IN  /\ initialized' = r.inited
           /\ session' = SessionAfter(s, frame, r)
           /\ slots' = [slots EXCEPT ![s] =
                  [IdleSlot EXCEPT !.pc = "done", !.frame = frame,
                                   !.pre_inited = initialized,
                                   !.pre_shutdown = session.own[s].shutdown,
                                   !.dispatched = r.dispatched,
                                   !.ran = r.ran, !.out = r.out]]
    /\ UNCHANGED <<cfg, calls, now, clients, admitted, registry, orch,
                 cli, wire, hub, execution,
                 trust, confirms, hist, gate>>

\* MCPServerRegistry.handle_message
RegistryHandle(s, frame) ==
    /\ cfg.kind = "registry"
    /\ slots[s].pc \in {"idle", "done"}
    /\ LET r == registry_handle_message(registry, frame)
       IN  slots' = [slots EXCEPT ![s] =
                  [IdleSlot EXCEPT !.pc = "done", !.frame = frame,
                                   !.dispatched = r.dispatched, !.ran = r.ran,
                                   !.raised = r.raised, !.out = r.out]]
    /\ UNCHANGED <<cfg, calls, now, clients, admitted, initialized, session, registry, orch,
                 cli, wire, hub, execution,
                 trust, confirms, hist, gate>>

\* MCPServerRegistry.register_server
RegisterServer(prefix) ==
    /\ cfg.kind = "registry"
    /\ registry' = register_server(registry, prefix)
    /\ UNCHANGED <<cfg, calls, now, clients, admitted, initialized, session, slots, orch,
                 cli, wire, hub, execution,
                 trust, confirms, hist, gate>>

\* MCPServerRegistry.unregister_server
UnregisterServer(name) ==
    /\ cfg.kind = "registry"
    /\ registry' = unregister_server(registry, name)
    /\ UNCHANGED <<cfg, calls, now, clients, admitted, initialized, session, slots, orch,
                 cli, wire, hub, execution,
                 trust, confirms, hist, gate>>

\* The bucket's contents change other than by consume: the requests already
\* checked were checked against the earlier contents.
Stale(sl) == [s \in SlotIds |-> [sl[s] EXCEPT !.fresh = FALSE]]

\* The clock moves on by one second.
Tick ==
    /\ now < MaxTime
    /\ now' = now + 1
    /\ admitted' = 0
    /\ slots' = Stale(slots)
    /\ UNCHANGED <<cfg, calls, clients, initialized, session, registry, orch,
                 cli, wire, hub, execution,
                 trust, confirms, hist, gate>>

\* RateLimiter.reset(client_id)
Reset(client) ==
    /\ cfg.kind = "hardened"
    /\ clients[client] # RateLimitState
    /\ clients' = [clients EXCEPT ![client] = RateLimitState]
    /\ admitted' = 0
    /\ slots' = Stale(slots)
    /\ UNCHANGED <<cfg, calls, now, initialized, session, registry, orch,
                 cli, wire, hub, execution,
                 trust, confirms, hist, gate>>

\* Nothing has been asked of the limiter.  slept: how often the caller has
\* let time pass.  Per client, last: the latest check_limit, with the time
\* it was made at, its verdict, the tokens a refill at that time gives,
\* whether the client was then within cooldown_seconds of a denial for lack
\* of tokens, and whether consume has followed.  short: the time of the
\* latest denial for lack of tokens made outside such a cooldown.  admits:
\* the times of the latest requests_per_minute + 1 consumed requests, oldest
\* first.
NoCalls ==
    [slept |-> 0,
     of |-> [c \in ClientIds |-> [last |-> <<>>, short |-> <<>>, admits |-> <<>>]]]

\* The client is within cooldown_seconds of its latest denial for lack of
\* tokens.
Cooling(c) ==
    /\ calls.of[c].short # <<>>
    /\ now < calls.of[c].short[1] + cfg.cooldown_seconds

\* allowed, retry_after = await limiter.check_limit(client_id)
CheckLimit(c) ==
    /\ cfg.kind = "limiter"
    /\ LET chk == check_limit(cfg, clients[c], now)
           refilled == _refill_tokens(cfg, clients[c], now).tokens
       IN  /\ clients' = [clients EXCEPT ![c] = chk.state]
           /\ calls' = [calls EXCEPT
                  !.of[c].last = <<[at |-> now, allowed |-> chk.allowed,
                                    refilled |-> refilled, cooling |-> Cooling(c),
                                    consumed |-> FALSE]>>,
                  !.of[c].short = IF ~Cooling(c) /\ ~chk.allowed /\ refilled < 1
                                  THEN <<now>> ELSE @]
    /\ UNCHANGED <<cfg, now, admitted, initialized, session, slots, registry, orch,
                 cli, wire, hub, execution,
                 trust, confirms, hist, gate>>

\* await limiter.consume(client_id), after check_limit returned True.
Consume(c) ==
    /\ cfg.kind = "limiter"
    /\ calls.of[c].last # <<>>
    /\ calls.of[c].last[1].allowed
    /\ ~calls.of[c].last[1].consumed
    /\ clients' = [clients EXCEPT ![c] = consume(cfg, @)]
    /\ calls' = [calls EXCEPT
           !.of[c].last[1].consumed = TRUE,
           !.of[c].admits = LET all == Append(@, now)
                            IN  IF Len(all) > cfg.requests_per_minute + 1
                                THEN Tail(all) ELSE all]
    /\ UNCHANGED <<cfg, now, admitted, initialized, session, slots, registry, orch,
                 cli, wire, hub, execution,
                 trust, confirms, hist, gate>>

\* The caller lets time pass: a second, or most of a window.
Sleep(d) ==
    /\ cfg.kind = "limiter"
    /\ calls.slept < MaxSleeps
    /\ now' = now + d
    /\ calls' = [calls EXCEPT !.slept = @ + 1]
    /\ UNCHANGED <<cfg, clients, admitted, initialized, session, slots,
                   registry, orch,
                 cli, wire, hub, execution,
                 trust, confirms, hist, gate>>

\* No orchestrator has been constructed.
OrchIdle == [node |-> "none"]

\* AgentOrchestrator.run: the graph is entered at its entry point.
Run ==
    /\ orch.node = "idle"
    /\ orch' = [orch EXCEPT !.node = "plan"]
    /\ UNCHANGED <<cfg, calls, now, clients, admitted, initialized, session, slots, registry,
                 cli, wire, hub, execution,
                 trust, confirms, hist, gate>>

\* The graph runs its current node; the planner's answer, the tool
\* executor's outcome, the verifier's verdict, the confirmation manager's
\* answer and whether the node's LLM call or manager raises are inputs.
GraphStep ==
    /\ orch.node \in {"plan", "execute", "confirm", "verify", "retry", "summarize"}
    /\ \E plan \in (IF orch.node = "plan" THEN Plans ELSE {<<>>}),
          outcome \in (IF orch.node = "execute" THEN {"ok", "raise"} ELSE {"ok"}),
          passed \in (IF orch.node = "verify" THEN BOOLEAN ELSE {FALSE}),
          decision \in (IF orch.node = "confirm" THEN BOOLEAN ELSE {FALSE}),
          fault \in (IF \/ orch.node \in {"plan", "verify", "retry", "summarize"}
                        \/ orch.node = "confirm" /\ orch.manager # "none"
                     THEN BOOLEAN ELSE {FALSE}),
          kept \in (IF orch.node = "confirm" THEN BOOLEAN ELSE {FALSE}) :
          orch' = GraphNode(orch, plan, outcome, passed, decision, fault, kept)
    /\ UNCHANGED <<cfg, calls, now, clients, admitted, initialized, session, slots, registry,
                 cli, wire, hub, execution,
                 trust, confirms, hist, gate>>

\* The subsystems a specification does not exercise.
NoClient == [transport |-> "none"]

-----------------------------------------------------------------------------
(* MCPClient (core/mcp/client.py) over a websocket or a subprocess's pipes *)

MaxRequests == 3
MaxFramesPerRequest == 2

\* The client after connect_websocket / connect_stdio: the reader task runs,
\* the initialize request (id 1) has been answered and popped.  requests[i]
\* is the request with id i + 1: its future, whether _pending_requests
\* still holds it, where its caller is, and the frames the peer has sent
\* for it.  crash_on is the state of the future the reader's set_result or
\* set_exception was refused on.
NewClient(transport) ==
    [transport |-> transport, initialized |-> TRUE, requests |-> <<>>,
     reader |-> "running", crash_on |-> "none", disconnect |-> "none"]

\* _ws_request / _stdio_request up to the await: allocate the id, create
\* the future, enter it in the table, send.
_request(method) ==
    /\ cli.transport # "none"
    /\ cli.initialized
    /\ cli.disconnect = "none"
    /\ Len(cli.requests) < MaxRequests
    /\ cli' = [cli EXCEPT !.requests = Append(@,
                  [method |-> method, future |-> "pending", entry |-> TRUE,
                   caller |-> "waiting", frames |-> 0])]
    /\ UNCHANGED <<cfg, now, clients, admitted, calls, initialized, session, slots,
                   registry, orch, wire, hub, execution,
                   trust, confirms, hist, gate>>

\* One turn of _ws_message_handler / _stdio_message_handler on a frame
\* carrying the id of request i.  A websocket reader takes buffered frames
\* back to back; a pipe reader waits on the executor between lines, and a
\* caller it has woken runs first.  Future.set_result / set_exception on a
\* future that is done raises InvalidStateError: the handler's except
\* clause ends the loop, and over a websocket fails every future that is
\* not done.
_message_handler(i, outcome) ==
    /\ cli.transport # "none"
    /\ cli.reader = "running"
    /\ i \in 1..Len(cli.requests)
    /\ cli.requests[i].frames < MaxFramesPerRequest
    /\ cli.transport = "stdio" =>
         \A j \in 1..Len(cli.requests) :
            ~(cli.requests[j].entry /\ cli.requests[j].future \in {"result", "exception"})
    /\ LET r == cli.requests[i]
           counted == [cli.requests EXCEPT ![i].frames = @ + 1]
       IN  cli' =
             IF ~r.entry
             THEN [cli EXCEPT !.requests = counted]
             ELSE IF r.future = "pending"
             THEN [cli EXCEPT !.requests = [counted EXCEPT ![i].future = outcome]]
             ELSE [cli EXCEPT
                     !.reader = "crashed",
                     !.crash_on = r.future,
                     !.requests =
                        IF cli.transport = "websocket"
                        THEN [j \in 1..Len(counted) |->
                                IF counted[j].future = "pending"
                                THEN [counted[j] EXCEPT !.future = "exception"]
                                ELSE counted[j]]
                        ELSE counted]
    /\ UNCHANGED <<cfg, now, clients, admitted, calls, initialized, session, slots,
                   registry, orch, wire, hub, execution,
                   trust, confirms, hist, gate>>

\* asyncio.wait_for(future, timeout=30.0) running out: the future is
\* cancelled; the caller is resumed by the event loop afterwards.
wait_for_timeout(i) ==
    /\ cli.transport # "none"
    /\ i \in 1..Len(cli.requests)
    /\ cli.requests[i].caller = "waiting"
    /\ cli.requests[i].future = "pending"
    /\ cli' = [cli EXCEPT !.requests[i].future = "cancelled"]
    /\ UNCHANGED <<cfg, now, clients, admitted, calls, initialized, session, slots,
                   registry, orch, wire, hub, execution,
                   trust, confirms, hist, gate>>

\* The caller of request i resumed: wait_for returns or raises, the finally
\* clause pops the entry.  The caller of the shutdown request is
\* disconnect(), which goes on whatever the outcome: closes the websocket
\* or terminates the subprocess (the reader's loop ends) and clears
\* _initialized.
_request_finally(i) ==
    /\ cli.transport # "none"
    /\ i \in 1..Len(cli.requests)
    /\ cli.requests[i].caller = "waiting"
    /\ cli.requests[i].future # "pending"
    /\ LET r == cli.requests[i]
           popped == [cli EXCEPT
                        !.requests[i].entry = FALSE,
                        !.requests[i].caller =
                            CASE r.future = "result" -> "returned"
                              [] r.future = "exception" -> "raised"
                              [] OTHER -> "timed_out"]
       IN  cli' = IF r.method = "shutdown"
                  THEN [popped EXCEPT
                          !.reader = IF @ = "running" THEN "ended" ELSE @,
                          !.initialized = FALSE,
                          !.disconnect = "returned"]
                  ELSE popped
    /\ UNCHANGED <<cfg, now, clients, admitted, calls, initialized, session, slots,
                   registry, orch, wire, hub, execution,
                   trust, confirms, hist, gate>>

\* disconnect() up to its await: the shutdown request is sent.
disconnect ==
    /\ cli.transport # "none"
    /\ cli.initialized
    /\ cli.disconnect = "none"
    /\ Len(cli.requests) < MaxRequests
    /\ cli' = [cli EXCEPT
                  !.disconnect = "shutdown_sent",
                  !.requests = Append(@,
                     [method |-> "shutdown", future |-> "pending", entry |-> TRUE,
                      caller |-> "waiting", frames |-> 0])]
    /\ UNCHANGED <<cfg, now, clients, admitted, calls, initialized, session, slots,
                   registry, orch, wire, hub, execution,
                   trust, confirms, hist, gate>>

NoWire == [transport |-> "none"]

-----------------------------------------------------------------------------
(* One connection of a transport (core/mcp/transport.py) to a handler *)

MaxMessages == 3

\* An id that is a JSON array or object.
BadId == "[]"

\* What a peer writes on the connection: a well-formed frame ("object"),
\* text that is not JSON ("malformed"), JSON that is not an object
\* ("array"), a tools/call whose arguments are not an object ("bad_params")
\* and a tools/list whose id is an array ("bad_id").
WireMessages ==
    { [shape |-> "object", id |-> f.id, frame |-> <<f>>] :
        f \in {g \in Frames :
                  /\ g.cred = "user"
                  /\ \/ g.method = "tools/list"
                     \/ g.method = "notifications/initialized" /\ g.id = NoId} }
    \cup { [shape |-> "malformed", id |-> NoId, frame |-> <<>>],
           [shape |-> "array", id |-> NoId, frame |-> <<>>],
           [shape |-> "bad_params", id |-> "r1", frame |-> <<>>],
           [shape |-> "bad_id", id |-> BadId, frame |-> <<>>] }

\* handle_message of the endpoint a transport was given as its handler:
\* the text it returns (out) or that an exception left it (raised).
\*   MCPServer: json.JSONDecodeError -> PARSE_ERROR; any other exception
\*     -> INTERNAL_ERROR built with JSONRPCResponse(id=data.get("id")),
\*     which itself fails validation when the id is not a string or int.
\*   HardenedMCPServer (limiter admitting, credentials of a user): the same
\*     two except clauses around the checks and the call of the core.
\*   MCPServerRegistry: no except clause; responses built by json.dumps.
_handler(server, c, reg, msg) ==
    LET answer(r) == [out |-> r, raised |-> FALSE]
        raise == [out |-> <<>>, raised |-> TRUE]
        core(kind) ==
            CASE msg.shape = "malformed" -> answer(<<ErrorResponse(NoId, PARSE_ERROR)>>)
              [] msg.shape = "array" -> answer(<<ErrorResponse(NoId, INTERNAL_ERROR)>>)
              [] msg.shape = "bad_params" ->
                    answer(<<ErrorResponse(msg.id, INTERNAL_ERROR)>>)
              [] msg.shape = "bad_id" -> raise
              [] OTHER ->
                    LET r == handle_message(kind, c, msg.frame[1], FALSE)
                    IN  answer(IF r.hung THEN <<_timeout_response(msg.id)>> ELSE r.out)
    IN  CASE server = "core" -> core("core")
          [] server = "hardened" ->
                IF /\ msg.shape = "object"
                   /\ ~_check_authorization(authenticate(msg.frame[1].cred), msg.frame[1])
                THEN answer(<<_unauthorized_response(msg.id)>>)
                ELSE core("hardened")
          [] OTHER ->
                CASE msg.shape \in {"malformed", "array", "bad_params"} -> raise
                  [] msg.shape = "bad_id" -> answer(<<ResultResponse(msg.id, <<>>)>>)
                  [] OTHER ->
                        LET r == registry_handle_message(reg, msg.frame[1])
                        IN  IF r.raised THEN raise ELSE answer(r.out)

\* A read loop that takes the newest message waiting instead of the oldest.
receive_newest(inbox) ==
    [message |-> inbox[Len(inbox)], rest |-> SubSeq(inbox, 1, Len(inbox) - 1)]

\* 'async for message in self.receive()' / 'async for message in websocket':
\* the next message is the oldest one not yet read.
receive(inbox) ==
    [message |-> Head(inbox), rest |-> Tail(inbox)]

\* A connection just opened: nothing read, nothing written.  'sent' counts
\* the peer's messages, 'escaped' lists the messages whose handling raised
\* into the transport.
NewWire(transport, server) ==
    [transport |-> transport, server |-> server, inbox |-> <<>>, sent |-> 0,
     outbox |-> <<>>, escaped |-> <<>>]

\* The peer writes a message; the n-th message written carries seq n.
PeerSend(msg) ==
    /\ wire.transport # "none"
    /\ wire.sent < MaxMessages
    /\ wire' = [wire EXCEPT !.sent = @ + 1,
                            !.inbox = Append(@, [seq |-> wire.sent + 1, msg |-> msg])]
    /\ UNCHANGED <<cfg, now, clients, admitted, calls, initialized, session, slots,
                   registry, orch, cli, hub, execution,
                   trust, confirms, hist, gate>>

\* One turn of StdioTransport._read_loop / of the loop of
\* WebSocketTransport._handle_connection: await the handler, then await the
\* send of what it returned.  When the handler raises, the stdio loop logs
\* and goes on; the websocket loop sends an INTERNAL_ERROR response with a
\* null id.
_read_loop ==
    /\ wire.transport # "none"
    /\ wire.inbox # <<>>
    /\ LET next == receive(wire.inbox)
           h == _handler(wire.server, cfg, registry, next.message.msg)
           written ==
               IF h.raised
               THEN IF wire.transport = "websocket"
                    THEN <<[request |-> next.message, by_transport |-> TRUE,
                            response |-> ErrorResponse(NoId, INTERNAL_ERROR)]>>
                    ELSE <<>>
               ELSE [k \in 1..Len(h.out) |->
                        [request |-> next.message, by_transport |-> FALSE,
                         response |-> h.out[k]]]
       IN  wire' = [wire EXCEPT
                      !.inbox = next.rest,
                      !.outbox = @ \o written,
                      !.escaped = IF h.raised THEN Append(@, next.message) ELSE @]
    /\ UNCHANGED <<cfg, now, clients, admitted, calls, initialized, session, slots,
                   registry, orch, cli, hub, execution,
                   trust, confirms, hist, gate>>

NoHub == [servers |-> <<>>]

-----------------------------------------------------------------------------
(* A registry of several servers: core/mcp/registry.py *)

MaxRegistrations == 3

\* A tool name or a URI is the sequence of its segments: "p.t" is
\* <<"p", "t">>, "a/b" is <<"a", "b">>.  Server names and prefixes have one
\* segment.

\* The servers that get registered, by MCPServer.name.
SubServers == {"alpha", "beta"}

\* MCPServer.tools (the names)
server_tools(server) ==
    IF server = "alpha" THEN {<<"t">>, <<"u">>} ELSE {<<"t">>}

\* MCPServer.resources (the URIs)
server_resources(server) ==
    IF server = "alpha" THEN {<<"a">>} ELSE {<<"a", "b">>}

\* The prefix argument of register_server: None or a name.
HubPrefixes == {<<>>, <<"p">>, <<"q">>}

\* ToolCall(tool_name, arguments, call_id)
ToolCalls ==
    [tool_name : {<<"t">>, <<"u">>, <<"p", "t">>, <<"p", "u">>, <<"q", "t">>},
     arguments : {"x", "y"}, call_id : {"c1", "c2"}]

Uris == {<<"a">>, <<"a", "b">>, <<"a", "b", "c">>, <<"z">>}

\* str.startswith
startswith(uri, prefix) ==
    /\ Len(prefix) <= Len(uri)
    /\ SubSeq(uri, 1, Len(prefix)) = prefix

\* MCPServer.call_tool of a registered server: the handler invoked (if
\* any), with what, and the ToolResult.
server_call_tool(server, call) ==
    IF call.tool_name \notin server_tools(server)
    THEN [routed |-> <<server>>, invoked |-> <<>>,
          result |-> [call_id |-> call.call_id, is_error |-> TRUE,
                      content |-> <<"Tool not found", call.tool_name>>]]
    ELSE [routed |-> <<server>>,
          invoked |-> <<[server |-> server, tool |-> call.tool_name,
                         arguments |-> call.arguments, call_id |-> call.call_id]>>,
          result |-> [call_id |-> call.call_id, is_error |-> FALSE,
                      content |-> <<server, call.tool_name, call.arguments>>]]

\* MCPServerRegistry(): _servers and _tool_routes are dicts, and so is
\* _resource_routes, kept here as the sequence of its items in insertion
\* order.  'history' lists the register_server calls made.
EmptyHub ==
    [servers |-> <<>>, tool_routes |-> <<>>, resource_routes |-> <<>>,
     history |-> <<>>, last |-> [kind |-> "none"]]

\* A register_server that leaves the routes of names already routed alone.
hub_register_server_keep_first(h, server, prefix) ==
    LET server_name == IF prefix # <<>> THEN prefix[1] ELSE server
        full == IF prefix # <<>>
                THEN {<<server_name>> \o t : t \in server_tools(server)} ELSE {}
        names == full \cup server_tools(server)
    IN  [h EXCEPT
           !.servers = (server_name :> server) @@ @,
           !.tool_routes = [n \in names \cup DOMAIN @ |->
                               IF n \in DOMAIN @ THEN @[n] ELSE server_name],
           !.history = Append(@, [server |-> server, name |-> server_name,
                                  prefixed |-> prefix # <<>>])]

\* MCPServerRegistry.register_server
hub_register_server(h, server, prefix) ==
    LET server_name == IF prefix # <<>> THEN prefix[1] ELSE server
        full == IF prefix # <<>>
                THEN {<<server_name>> \o t : t \in server_tools(server)} ELSE {}
        names == full \cup server_tools(server)
        uri == CHOOSE u \in server_resources(server) : TRUE
        at == {i \in 1..Len(h.resource_routes) : h.resource_routes[i][1] = uri}
    IN  [h EXCEPT
           !.servers = (server_name :> server) @@ @,
           !.tool_routes = [n \in names \cup DOMAIN @ |->
                               IF n \in names THEN server_name ELSE @[n]],
           !.resource_routes =
               IF at = {} THEN Append(@, <<uri, server_name>>)
               ELSE [i \in 1..Len(@) |->
                        IF i \in at THEN <<uri, server_name>> ELSE @[i]],
           !.history = Append(@, [server |-> server, name |-> server_name,
                                  prefixed |-> prefix # <<>>])]

\* A call_tool that has only the direct routing.
hub_call_tool_direct_only(h, call) ==
    IF call.tool_name \in DOMAIN h.tool_routes
    THEN server_call_tool(h.servers[h.tool_routes[call.tool_name]], call)
    ELSE [routed |-> <<>>, invoked |-> <<>>,
          result |-> [call_id |-> call.call_id, is_error |-> TRUE,
                      content |-> <<"Tool not found", call.tool_name>>]]

\* MCPServerRegistry.call_tool
hub_call_tool(h, call) ==
    LET tool_name == call.tool_name
    IN  IF Len(tool_name) > 1 /\ Head(tool_name) \in DOMAIN h.servers
        THEN server_call_tool(h.servers[Head(tool_name)],
                              [tool_name |-> Tail(tool_name),
                               arguments |-> call.arguments,
                               call_id |-> call.call_id])
        ELSE IF tool_name \in DOMAIN h.tool_routes
        THEN server_call_tool(h.servers[h.tool_routes[tool_name]], call)
        ELSE [routed |-> <<>>, invoked |-> <<>>,
              result |-> [call_id |-> call.call_id, is_error |-> TRUE,
                          content |-> <<"Tool not found", tool_name>>]]

\* MCPServerRegistry.read_resource: the server the read is handed to, and
\* whether ValueError("Resource not found") comes back (from the registry
\* when no route matches, from MCPServer.read_resource when the server has
\* no such URI).
hub_read_resource(h, uri) ==
    LET matching == {i \in 1..Len(h.resource_routes) :
                        startswith(uri, h.resource_routes[i][1])}
        first == CHOOSE i \in matching : \A j \in matching : i <= j
        server == h.servers[h.resource_routes[first][2]]
    IN  IF matching = {}
        THEN [routed |-> <<>>, not_found |-> TRUE]
        ELSE [routed |-> <<server>>, not_found |-> uri \notin server_resources(server)]

\* MCPServerRegistry.unregister_server
hub_unregister_server(h, name) ==
    IF name \notin DOMAIN h.servers
    THEN h
    ELSE [h EXCEPT
            !.servers = [n \in DOMAIN @ \ {name} |-> @[n]],
            !.tool_routes = [k \in {k \in DOMAIN @ : @[k] # name} |-> @[k]],
            !.resource_routes = SelectSeq(@, LAMBDA item : item[2] # name)]

\* The names unregister_server is called with.
HubNames == SubServers \cup {"p", "q"}

\* A call of a tool by the name of the server it is registered under and
\* its own name, or by its own name.
NamedCall(tool_name) == [tool_name |-> tool_name, arguments |-> "x", call_id |-> "c1"]

RegisterHub(server, prefix) ==
    /\ hub # NoHub
    /\ Len(hub.history) < MaxRegistrations
    /\ hub' = [hub_register_server(hub, server, prefix) EXCEPT
                  !.last = [kind |-> "none"]]
    /\ UNCHANGED <<cfg, now, clients, admitted, calls, initialized, session, slots,
                   registry, orch, cli, wire, execution,
                   trust, confirms, hist, gate>>

UnregisterHub(name) ==
    /\ hub # NoHub
    /\ hub' = [hub_unregister_server(hub, name) EXCEPT
                  !.last = [kind |-> "unregister", name |-> name]]
    /\ UNCHANGED <<cfg, now, clients, admitted, calls, initialized, session, slots,
                   registry, orch, cli, wire, execution,
                   trust, confirms, hist, gate>>

CallToolHub(call) ==
    /\ hub # NoHub
    /\ hub' = [hub EXCEPT !.last = [kind |-> "tool", call |-> call,
                                     got |-> hub_call_tool(hub, call)]]
    /\ UNCHANGED <<cfg, now, clients, admitted, calls, initialized, session, slots,
                   registry, orch, cli, wire, execution,
                   trust, confirms, hist, gate>>

ReadResourceHub(uri) ==
    /\ hub # NoHub
    /\ hub' = [hub EXCEPT !.last = [kind |-> "resource", uri |-> uri,
                                     got |-> hub_read_resource(hub, uri)]]
    /\ UNCHANGED <<cfg, now, clients, admitted, calls, initialized, session, slots,
                   registry, orch, cli, wire, execution,
                   trust, confirms, hist, gate>>

NoExecution == [pc |-> "none"]

\* No RiskAssessor, ConfirmationManager, Histogram or per-tool limit is part
\* of the run.
NoAssessor == [pc |-> "none"]
NoManager == [pc |-> "none"]
NoHistogram == [pc |-> "none"]
NoGate == [pc |-> "none"]

-----------------------------------------------------------------------------
(* ToolExecutor: agents/executor.py *)

MaxExecRetries == 3

\* The messages of the exceptions a backend call ends with, each with the
\* patterns of ErrorClassifier and of the retry strategies that occur in it
\* (lower-cased).  TimeoutMessage is the message execute() gives a timeout:
\* "timed out" is none of the patterns.
ExecMessages ==
    { <<"Temporary network error", {"temporary", "network"}>>,
      <<"Connection timeout", {"connection", "timeout"}>>,
      <<"Rate limit exceeded", {"rate limit"}>>,
      <<"Invalid argument", {"invalid argument"}>>,
      <<"Permission denied", {"permission denied"}>>,
      <<"File not found", {"not found"}>>,
      <<"Connection refused: host not found", {"connection", "not found"}>>,
      <<"HTTP 429", {"429"}>>,
      <<"boom", {}>> }

TimeoutMessage == <<"Tool execution timed out after 30.0s", {}>>

\* How a call of the backend (_call_tool under wait_for) can end.
ExecOutcomes ==
    { [kind |-> "ok", message |-> <<"", {}>>],
      [kind |-> "timeout", message |-> TimeoutMessage] }
    \cup { [kind |-> "error", message |-> m] : m \in ExecMessages }

\* ErrorClassifier.classify
classify(message) ==
    IF message[2] \cap {"timeout", "connection", "network", "temporary",
                        "unavailable", "rate limit", "too many requests"} # {}
    THEN "transient"
    ELSE IF message[2] \cap {"invalid argument", "bad request", "missing parameter",
                             "type error", "validation"} # {}
    THEN "recoverable"
    ELSE IF message[2] \cap {"permission denied", "unauthorized", "forbidden",
                             "not found", "does not exist", "authentication"} # {}
    THEN "fatal"
    ELSE "unknown"

\* ErrorClassifier.get_strategy
get_strategy(message) ==
    IF "timeout" \in message[2] THEN "TimeoutRetryStrategy"
    ELSE IF message[2] \cap {"not found", "does not exist"} # {}
    THEN "FileNotFoundRetryStrategy"
    ELSE IF message[2] \cap {"rate limit", "429"} # {} THEN "RateLimitRetryStrategy"
    ELSE "RetryStrategy"

\* strategy.should_retry(error)
should_retry(strategy, message, category) ==
    CASE strategy = "TimeoutRetryStrategy" -> "timeout" \in message[2]
      [] strategy = "FileNotFoundRetryStrategy" ->
            message[2] \cap {"not found", "no such file", "does not exist"} # {}
      [] strategy = "RateLimitRetryStrategy" ->
            message[2] \cap {"rate limit", "too many requests", "429"} # {}
      [] OTHER -> category \in {"transient", "recoverable"}

\* A loop that runs once more than max_retries.
attempts_one_more(max_retries) == 1..(max_retries + 1)

\* range(1, self.max_retries + 1)
attempts(max_retries) == 1..max_retries

\* The end of a failed attempt without the check for a fatal category.
after_error_no_fatal_check(timed_out, message, attempt, max_retries) ==
    IF /\ attempt < max_retries
       /\ ~should_retry(get_strategy(message), message,
                        IF timed_out THEN "transient" ELSE classify(message))
    THEN "break" ELSE "continue"

\* The end of a failed attempt: break on a fatal category, break when
\* another attempt is left and the strategy declines it, else go on.
after_error(timed_out, message, attempt, max_retries) ==
    IF ~timed_out /\ classify(message) = "fatal" THEN "break"
    ELSE IF /\ attempt < max_retries
            /\ ~should_retry(get_strategy(message), message,
                             IF timed_out THEN "transient" ELSE classify(message))
    THEN "break" ELSE "continue"

\* ToolExecutor(registry, max_retries=...) before execute() is called.
NewExecutor(max_retries) ==
    [pc |-> "idle", max_retries |-> max_retries, attempt |-> 0, calls |-> 0,
     history |-> <<>>, result |-> <<>>, llm |-> FALSE, current_args |-> "arguments"]

\* execute() up to its first attempt.  With no attempt to make, the code
\* after the loop reads start_time, which was never bound.
execute ==
    /\ execution.pc = "idle"
    /\ execution' = IF 1 \in attempts(execution.max_retries)
                    THEN [execution EXCEPT !.pc = "running", !.attempt = 1]
                    ELSE [execution EXCEPT !.pc = "raised"]
    /\ UNCHANGED <<cfg, now, clients, admitted, calls, initialized, session, slots,
                   registry, orch, cli, wire, hub,
                   trust, confirms, hist, gate>>

\* One turn of the loop of execute(): the backend is called and returns,
\* times out, or raises an exception with a message.  When another attempt
\* follows, the category is UNKNOWN and an LLM is configured,
\* _analyze_error_with_llm is asked (can_fix is its answer) and its
\* new_arguments replace current_args; otherwise the strategy's
\* modify_arguments leaves arguments without 'timeout' and 'path' as they
\* are.  'asked' records in the error that the LLM was asked.
execute_attempt(outcome, can_fix) ==
    /\ execution.pc = "running"
    /\ LET e == execution
           timed_out == outcome.kind = "timeout"
           message == outcome.message
           category == IF timed_out THEN "transient" ELSE classify(message)
           again == /\ after_error(timed_out, message, e.attempt, e.max_retries)
                       = "continue"
                    /\ e.attempt + 1 \in attempts(e.max_retries)
           asked == again /\ category = "unknown" /\ e.llm
           error == [message |-> message[1], category |-> category,
                     attempt |-> e.attempt, arguments |-> e.current_args,
                     asked |-> asked]
           failed == [e EXCEPT !.calls = @ + 1, !.history = Append(@, error)]
       IN  execution' =
             IF outcome.kind = "ok"
             THEN [e EXCEPT !.calls = @ + 1, !.pc = "returned",
                            !.result = <<[success |-> TRUE, attempts |-> e.attempt]>>]
             ELSE IF again
             THEN [failed EXCEPT !.attempt = @ + 1,
                                 !.current_args = IF asked /\ can_fix
                                                  THEN "new_arguments" ELSE @]
             ELSE [failed EXCEPT !.pc = "returned",
                                 !.result = <<[success |-> FALSE,
                                               attempts |-> Len(failed.history)]>>]
    /\ UNCHANGED <<cfg, now, clients, admitted, calls, initialized, session, slots,
                   registry, orch, cli, wire, hub,
                   trust, confirms, hist, gate>>

\* BatchExecutor.execute_parallel: asyncio.gather over execute() calls on
\* one ToolExecutor.  _attempt_history is the executor's one list; 'own' is
\* what each call itself went through, 'by' the call an error belongs to.
TaskIds == {1, 2}

NewBatch(max_retries) ==
    [pc |-> "batch", max_retries |-> max_retries, history |-> <<>>,
     tasks |-> [k \in TaskIds |->
                  [pc |-> "created", attempt |-> 0, own |-> <<>>, result |-> <<>>]]]

\* The outcomes of a backend call that a batch run draws from.
BatchOutcomes ==
    {o \in ExecOutcomes :
        o.kind = "ok" \/ o.message[1] \in {"Temporary network error", "Permission denied"}}

\* execute() of task k up to its first await: self._attempt_history = [].
\* gather starts the tasks in order.
execute_start(k) ==
    /\ execution.pc = "batch"
    /\ execution.tasks[k].pc = "created"
    /\ \A j \in TaskIds : j < k => execution.tasks[j].pc # "created"
    /\ execution' = [execution EXCEPT
                        !.history = <<>>,
                        !.tasks[k].pc = "running",
                        !.tasks[k].attempt = 1]
    /\ UNCHANGED <<cfg, now, clients, admitted, calls, initialized, session, slots,
                   registry, orch, cli, wire, hub,
                   trust, confirms, hist, gate>>

\* Task k resumed after its backend call: one turn of the loop of
\* execute(), appending to and reading from self._attempt_history.
execute_resume(k, outcome) ==
    /\ execution.pc = "batch"
    /\ \A j \in TaskIds : execution.tasks[j].pc # "created"
    /\ execution.tasks[k].pc = "running"
    /\ LET e == execution
           t == e.tasks[k]
           timed_out == outcome.kind = "timeout"
           message == outcome.message
           error == [message |-> message[1],
                     category |-> IF timed_out THEN "transient" ELSE classify(message),
                     attempt |-> t.attempt, by |-> k]
           history == Append(e.history, error)
       IN  execution' =
             IF outcome.kind = "ok"
             THEN [e EXCEPT !.tasks[k].pc = "returned",
                            !.tasks[k].result =
                                <<[success |-> TRUE, attempts |-> t.attempt,
                                   error |-> <<>>]>>]
             ELSE IF /\ after_error(timed_out, message, t.attempt, e.max_retries)
                        = "continue"
                     /\ t.attempt + 1 \in attempts(e.max_retries)
             THEN [e EXCEPT !.history = history,
                            !.tasks[k].own = Append(@, error),
                            !.tasks[k].attempt = @ + 1]
             ELSE [e EXCEPT !.history = history,
                            !.tasks[k].own = Append(@, error),
                            !.tasks[k].pc = "returned",
                            !.tasks[k].result =
                                <<[success |-> FALSE, attempts |-> Len(history),
                                   error |-> <<history[Len(history)]>>]>>]
    /\ UNCHANGED <<cfg, now, clients, admitted, calls, initialized, session, slots,
                   registry, orch, cli, wire, hub,
                   trust, confirms, hist, gate>>


InitServer(configs) ==
    /\ cfg \in configs
    /\ now = 1
    /\ clients = [c \in ClientIds |-> RateLimitState]
    /\ admitted = 0
    /\ calls = NoCalls
    /\ initialized = FALSE
    /\ session = NewSession
    /\ slots = [s \in SlotIds |-> IdleSlot]
    /\ registry = EmptyRegistry
    /\ cli = NoClient
    /\ wire = NoWire
    /\ hub = NoHub
    /\ trust = NoAssessor
    /\ confirms = NoManager
    /\ hist = NoHistogram
    /\ gate = NoGate
    /\ execution = NoExecution
    /\ orch = OrchIdle

Init == InitServer(Configs)

InitRace == InitServer(RaceConfigs)

Next ==
    \/ \E s \in cfg.inflight, f \in Traffic(cfg), c \in ClientIds :
          HardenedReceive(s, f, c)
    \/ \E s \in cfg.inflight : HardenedResume(s)
    \/ \E s \in cfg.inflight, f \in Traffic(cfg) : CoreHandle(s, f)
    \/ \E s \in cfg.inflight, f \in Traffic(cfg) : RegistryHandle(s, f)
    \/ \E prefix \in Prefixes : RegisterServer(prefix)
    \/ \E name \in {ServerName, "fs"} : UnregisterServer(name)
    \/ Tick
    \/ \E c \in ClientIds : Reset(c)

\* One connection at a time, every kind of frame.
Spec == Init /\ [][Next]_vars

NextRace ==
    \/ \E s \in cfg.inflight, f \in Traffic(cfg), c \in ClientIds :
          HardenedReceive(s, f, c)
    \/ \E s \in cfg.inflight : HardenedResume(s)
    \/ Tick
    \/ \E c \in ClientIds : Reset(c)

\* Two connections at once, list requests only.
SpecRace == InitRace /\ [][NextRace]_vars

InitConn == InitServer(ConnConfigs)

\* WebSocketTransport._handle_connection: each connection hands its frames,
\* one at a time, to the server's handle_message.
NextConn ==
    \E s \in cfg.inflight, f \in Traffic(cfg) : CoreHandle(s, f)

\* Two connections to one plain server.
SpecConn == InitConn /\ [][NextConn]_vars

InitLimiter == InitServer(LimiterConfigs)

NextLimiter ==
    \/ \E c \in ClientIds : CheckLimit(c)
    \/ \E c \in ClientIds : Consume(c)
    \/ \E d \in {1, WindowSeconds - 2} : Sleep(d)

\* One caller of a RateLimiter: check_limit, consume, and time passing.
SpecLimiter == InitLimiter /\ [][NextLimiter]_vars

InitOrch ==
    /\ cfg = CHOOSE c \in Configs : c.kind = "core"
    /\ now = 1
    /\ clients = [c \in ClientIds |-> RateLimitState]
    /\ admitted = 0
    /\ calls = NoCalls
    /\ initialized = FALSE
    /\ session = NewSession
    /\ slots = [s \in SlotIds |-> IdleSlot]
    /\ registry = EmptyRegistry
    /\ cli = NoClient
    /\ wire = NoWire
    /\ hub = NoHub
    /\ trust = NoAssessor
    /\ confirms = NoManager
    /\ hist = NoHistogram
    /\ gate = NoGate
    /\ execution = NoExecution
    /\ orch \in {NewOrchestrator(m, r) :
                    m \in {"none", "approve", "deny"}, r \in 0..MaxRetriesLimit}

NextOrch == Run \/ GraphStep

\* The compiled graph (AgentOrchestrator.graph) invoked with an AgentState
\* whose requires_confirmation is set: no node sets it and run() starts
\* from a state that has it cleared, so the confirm node is entered only
\* this way.
InitGraph ==
    /\ cfg = CHOOSE c \in Configs : c.kind = "core"
    /\ now = 1
    /\ clients = [c \in ClientIds |-> RateLimitState]
    /\ admitted = 0
    /\ calls = NoCalls
    /\ initialized = FALSE
    /\ session = NewSession
    /\ slots = [s \in SlotIds |-> IdleSlot]
    /\ registry = EmptyRegistry
    /\ cli = NoClient
    /\ wire = NoWire
    /\ hub = NoHub
    /\ trust = NoAssessor
    /\ confirms = NoManager
    /\ hist = NoHistogram
    /\ gate = NoGate
    /\ execution = NoExecution
    /\ orch \in {[NewOrchestrator(m, r) EXCEPT !.requires_confirmation = TRUE] :
                    m \in {"none", "approve", "deny"}, r \in 0..MaxRetriesLimit}

\* The graph run on a state that asks for confirmation.
SpecGraph == InitGraph /\ [][NextOrch]_vars

\* One orchestrator run.
SpecOrch == InitOrch /\ [][NextOrch]_vars

\* graph.ainvoke runs node after node until the graph reaches END or a
\* node raises: a node that can run does run.
SpecGraphFair == InitGraph /\ [][NextOrch]_vars /\ WF_vars(NextOrch)

\* run() under the same scheduling.
SpecOrchFair == InitOrch /\ [][NextOrch]_vars /\ WF_vars(NextOrch)

InitClient ==
    /\ cfg = CHOOSE c \in Configs : c.kind = "core"
    /\ now = 1
    /\ clients = [c \in ClientIds |-> RateLimitState]
    /\ admitted = 0
    /\ calls = NoCalls
    /\ initialized = FALSE
    /\ session = NewSession
    /\ slots = [s \in SlotIds |-> IdleSlot]
    /\ registry = EmptyRegistry
    /\ orch = OrchIdle
    /\ cli \in {NewClient(t) : t \in {"websocket", "stdio"}}
    /\ wire = NoWire
    /\ hub = NoHub
    /\ trust = NoAssessor
    /\ confirms = NoManager
    /\ hist = NoHistogram
    /\ gate = NoGate
    /\ execution = NoExecution

NextClient ==
    \/ _request("tools/call")
    \/ \E i \in 1..MaxRequests, outcome \in {"result", "exception"} :
          _message_handler(i, outcome)
    \/ \E i \in 1..MaxRequests : wait_for_timeout(i)
    \/ \E i \in 1..MaxRequests : _request_finally(i)
    \/ disconnect

InitExec ==
    /\ cfg = CHOOSE c \in Configs : c.kind = "core"
    /\ now = 1
    /\ clients = [c \in ClientIds |-> RateLimitState]
    /\ admitted = 0
    /\ calls = NoCalls
    /\ initialized = FALSE
    /\ session = NewSession
    /\ slots = [s \in SlotIds |-> IdleSlot]
    /\ registry = EmptyRegistry
    /\ orch = OrchIdle
    /\ cli = NoClient
    /\ wire = NoWire
    /\ hub = NoHub
    /\ trust = NoAssessor
    /\ confirms = NoManager
    /\ hist = NoHistogram
    /\ gate = NoGate
    /\ execution \in {[NewExecutor(r) EXCEPT !.llm = l] :
                         r \in 0..MaxExecRetries, l \in BOOLEAN}

NextExec ==
    \/ execute
    \/ \E outcome \in ExecOutcomes, can_fix \in BOOLEAN :
          execute_attempt(outcome, can_fix)

\* One call of ToolExecutor.execute.
SpecExec == InitExec /\ [][NextExec]_vars

-----------------------------------------------------------------------------
(* Confirmation manager: agents/confirmation.py *)

\* How many request_confirmation calls are made on the manager.
MaxConfirmations == 2

ConfirmationCalls == 1..MaxConfirmations

\* What the await on the prompt function ends with: a response that
\* _parse_response reads as approval or as denial, asyncio.TimeoutError
\* from wait_for, or an exception of the prompt function.
PromptOutcomes == {"y", "n", "timeout", "raise"}

\* ConfirmationManager._parse_response(response).approved
_parse_response(response) == response = "y"

\* ConfirmationManager.__init__.  prompt: which of async_prompt_fn and
\* prompt_fn is given ("none": neither).  of[k]: the k-th
\* request_confirmation call, its request id and what it returned.
NewManager(prompt, auto_deny_on_timeout) ==
    [pc |-> "manager", prompt |-> prompt, auto_deny_on_timeout |-> auto_deny_on_timeout,
     _history |-> <<>>, _pending |-> {}, _request_counter |-> 0,
     of |-> [k \in ConfirmationCalls |-> [pc |-> "created", id |-> 0, result |-> <<>>]]]

\* The end of request_confirmation, from "Update request" on.
_update_request(m, k, approved) ==
    [m EXCEPT !._history = Append(@, [id |-> m.of[k].id, approved |-> approved]),
              !._pending = @ \ {m.of[k].id},
              !.of[k].pc = "returned",
              !.of[k].result = <<approved>>]

\* request_confirmation(assessment) up to its await: the request is
\* created and made pending, and the prompt function is started.  With no
\* prompt function there is no await and the call runs to its end.
request_confirmation(k, level) ==
    /\ confirms.pc = "manager"
    /\ confirms.of[k].pc = "created"
    /\ LET id == confirms._request_counter + 1
           made == [confirms EXCEPT !._request_counter = id,
                                    !._pending = @ \cup {id},
                                    !.of[k].id = id,
                                    !.of[k].pc = "prompting"]
       IN  confirms' = IF confirms.prompt = "none"
                       THEN _update_request(made, k, level \in {"safe", "low"})
                       ELSE made
    /\ UNCHANGED <<cfg, now, clients, admitted, calls, initialized, session, slots,
                   registry, orch, cli, wire, hub, execution, trust, hist, gate>>

\* request_confirmation from the end of its await on.
request_confirmation_resume(k, outcome) ==
    /\ confirms.pc = "manager"
    /\ confirms.of[k].pc = "prompting"
    /\ confirms' =
          CASE outcome = "raise" -> [confirms EXCEPT !.of[k].pc = "raised"]
            [] outcome = "timeout" ->
                  _update_request(confirms, k, ~confirms.auto_deny_on_timeout)
            [] OTHER -> _update_request(confirms, k, _parse_response(outcome))
    /\ UNCHANGED <<cfg, now, clients, admitted, calls, initialized, session, slots,
                   registry, orch, cli, wire, hub, execution, trust, hist, gate>>

-----------------------------------------------------------------------------
(* Histogram: core/mcp/metrics.py *)

\* How many observations a histogram gets.
MaxObservations == 3

\* Bucket lists, upper bounds in ascending order as in DEFAULT_BUCKETS, in
\* units of the smallest bound.
BucketLists == { <<1, 2, 4>>, <<2, 3>> }

\* The values observed; 5 lies above every bucket.
Observations == {1, 2, 3, 5}

\* The percentiles asked for.
Percentiles == {0, 25, 50, 75, 99, 100}

\* Histogram.__init__.  _counts[i] belongs to buckets[i].  observed: the
\* values passed to observe, in order; asked: the latest two
\* get_percentile calls made since the latest observe, with their results.
NewHistogram(buckets) ==
    [pc |-> "histogram", buckets |-> buckets,
     _counts |-> [i \in 1..Len(buckets) |-> 0], _inf |-> 0,
     _sum |-> 0, _count |-> 0, observed |-> <<>>, asked |-> <<>>]

\* Histogram.observe
observe(value) ==
    /\ hist.pc = "histogram"
    /\ Len(hist.observed) < MaxObservations
    /\ hist' = [hist EXCEPT
                   !._sum = @ + value,
                   !._count = @ + 1,
                   !._counts = [i \in 1..Len(hist.buckets) |->
                                   IF value <= hist.buckets[i] THEN @[i] + 1 ELSE @[i]],
                   !._inf = @ + 1,
                   !.observed = Append(@, value),
                   !.asked = <<>>]
    /\ UNCHANGED <<cfg, now, clients, admitted, calls, initialized, session, slots,
                   registry, orch, cli, wire, hub, execution, trust, confirms, gate>>

\* Histogram.get_percentile that falls back to the first bucket.
get_percentile_first_bucket(h, percentile) ==
    IF h._count = 0 THEN 0
    ELSE LET reached == {i \in 1..Len(h.buckets) :
                            h._counts[i] * 100 >= percentile * h._count}
         IN  IF reached # {}
             THEN h.buckets[CHOOSE i \in reached : \A j \in reached : i <= j]
             ELSE h.buckets[1]

\* Histogram.get_percentile: the first bucket, in list order, whose count
\* is at least percentile / 100 * _count, else the last bucket.
get_percentile(h, percentile) ==
    IF h._count = 0 THEN 0
    ELSE LET reached == {i \in 1..Len(h.buckets) :
                            h._counts[i] * 100 >= percentile * h._count}
         IN  IF reached # {}
             THEN h.buckets[CHOOSE i \in reached : \A j \in reached : i <= j]
             ELSE h.buckets[Len(h.buckets)]

\* One get_percentile call.
GetPercentile(percentile) ==
    /\ hist.pc = "histogram"
    /\ LET answer == [percentile |-> percentile, value |-> get_percentile(hist, percentile)]
       IN  hist' = [hist EXCEPT
                       !.asked = IF Len(@) < 2 THEN Append(@, answer)
                                 ELSE <<@[2], answer>>]
    /\ UNCHANGED <<cfg, now, clients, admitted, calls, initialized, session, slots,
                   registry, orch, cli, wire, hub, execution, trust, confirms, gate>>

-----------------------------------------------------------------------------
(* Per-tool limits: core/mcp/rate_limit.py, core/mcp/hardened.py *)

\* tool_name=None
NoTool == "None"

\* The tools that tools/call frames name.
CalledTools == {"slow_query", "echo"}

\* Hardened servers whose RateLimitConfig.tool_limits has an entry for
\* "slow_query", below what the client-wide limits allow.
ToolLimitConfigs ==
    { [kind |-> "hardened", burst_capacity |-> 3, requests_per_second |-> 1,
       requests_per_minute |-> 3, cooldown_seconds |-> 1, enabled |-> TRUE,
       validate_inputs |-> TRUE, inflight |-> {"s1"}, traffic |-> "basic",
       tool_limits |-> [tool \in {"slow_query"} |-> limit]] :
      limit \in {1, 2} }

\* RateLimiter.check_limit(client_id, tool_name); tool_states is
\* _tool_states[client_id].
check_limit_tool(c, state, tool_states, tool_name, t) ==
    LET r == check_limit(c, state, t)
    IN  IF ~c.enabled \/ ~r.allowed
             \/ tool_name = NoTool \/ tool_name \notin DOMAIN c.tool_limits
        THEN [allowed |-> r.allowed, retry_after |-> r.retry_after,
              state |-> r.state, tool_states |-> tool_states]
        ELSE LET tool_state == _refill_tokens(c, tool_states[tool_name], t)
                 refilled == [tool_states EXCEPT ![tool_name] = tool_state]
             IN  IF tool_state.request_count >= c.tool_limits[tool_name]
                 THEN [allowed |-> FALSE,
                       retry_after |-> <<WindowSeconds - (t - tool_state.window_start)>>,
                       state |-> r.state, tool_states |-> refilled]
                 ELSE [allowed |-> TRUE, retry_after |-> <<>>,
                       state |-> r.state, tool_states |-> refilled]

\* RateLimiter.consume(client_id, tool_name)
consume_tool(c, state, tool_states, tool_name) ==
    IF ~c.enabled
    THEN [state |-> state, tool_states |-> tool_states]
    ELSE [state |-> consume(c, state),
          tool_states |-> IF tool_name = NoTool THEN tool_states
                          ELSE [tool_states EXCEPT ![tool_name].request_count = @ + 1]]

\* RateLimiter.__init__ of a hardened server: nothing in _tool_states.
\* admits[tool]: the times at which tools/call frames naming tool were
\* admitted; rejected[tool]: whether one got the rate-limit response.
NewGate ==
    [pc |-> "gate",
     _tool_states |-> [tool \in CalledTools |-> RateLimitState],
     admits |-> [tool \in CalledTools |-> <<>>],
     rejected |-> [tool \in CalledTools |-> FALSE]]

\* HardenedMCPServer.handle_message for a tools/call frame of client "c1"
\* that names tool, from one connection that sends its frames one after
\* the other: check_limit(client_id), authenticate and authorize (granted),
\* consume(client_id).  Neither call is given the tool's name.
HardenedToolsCall(tool) ==
    /\ gate.pc = "gate"
    /\ LET chk == check_limit_tool(cfg, clients["c1"], gate._tool_states, NoTool, now)
           used == consume_tool(cfg, chk.state, chk.tool_states, NoTool)
       IN  IF chk.allowed
           THEN /\ clients' = [clients EXCEPT !["c1"] = used.state]
                /\ gate' = [gate EXCEPT !._tool_states = used.tool_states,
                                        !.admits[tool] = Append(@, now)]
           ELSE /\ clients' = [clients EXCEPT !["c1"] = chk.state]
                /\ gate' = [gate EXCEPT !._tool_states = chk.tool_states,
                                        !.rejected[tool] = TRUE]
    /\ UNCHANGED <<cfg, now, admitted, calls, initialized, session, slots, registry, orch,
                   cli, wire, hub, execution, trust, confirms, hist>>

\* time.time() advances between two frames.
GateTick ==
    /\ gate.pc = "gate"
    /\ now < MaxTime
    /\ now' = now + 1
    /\ UNCHANGED <<cfg, clients, admitted, calls, initialized, session, slots, registry,
                   orch, cli, wire, hub, execution, trust, confirms, hist, gate>>

\* No server, limiter, orchestrator, client, connection, registry or
\* executor is part of the run.
NothingElse ==
    /\ cfg = CHOOSE c \in Configs : c.kind = "core"
    /\ now = 1
    /\ clients = [c \in ClientIds |-> RateLimitState]
    /\ admitted = 0
    /\ calls = NoCalls
    /\ initialized = FALSE
    /\ session = NewSession
    /\ slots = [s \in SlotIds |-> IdleSlot]
    /\ registry = EmptyRegistry
    /\ orch = OrchIdle
    /\ cli = NoClient
    /\ wire = NoWire
    /\ hub = NoHub
    /\ execution = NoExecution

InitRisk ==
    /\ NothingElse
    /\ trust \in {NewAssessor(level, rules) :
                     level \in {"low", "medium", "critical"}, rules \in TrustRuleLists}
    /\ confirms = NoManager
    /\ hist = NoHistogram
    /\ gate = NoGate

NextRisk ==
    \/ \E tool \in RiskTools : trust_tool(tool)
    \/ \E tool \in RiskTools : untrust_tool(tool)
    \/ \E tool \in RiskTools, args \in ArgKinds : Assess(tool, args)

\* One RiskAssessor, trusted and untrusted tools and assess calls.
SpecRisk == InitRisk /\ [][NextRisk]_vars

InitConfirm ==
    /\ NothingElse
    /\ trust = NoAssessor
    /\ confirms \in {NewManager(prompt, deny) :
                        prompt \in {"async_prompt_fn", "prompt_fn", "none"},
                        deny \in BOOLEAN}
    /\ hist = NoHistogram
    /\ gate = NoGate

NextConfirm ==
    \/ \E k \in ConfirmationCalls, level \in {"low", "high"} :
          request_confirmation(k, level)
    \/ \E k \in ConfirmationCalls, outcome \in PromptOutcomes :
          request_confirmation_resume(k, outcome)

\* request_confirmation calls on one ConfirmationManager.
SpecConfirm == InitConfirm /\ [][NextConfirm]_vars

InitHistogram ==
    /\ NothingElse
    /\ trust = NoAssessor
    /\ confirms = NoManager
    /\ hist \in {NewHistogram(buckets) : buckets \in BucketLists}
    /\ gate = NoGate

NextHistogram ==
    \/ \E value \in Observations : observe(value)
    \/ \E percentile \in Percentiles : GetPercentile(percentile)

\* One Histogram, its observations and percentile queries.
SpecHistogram == InitHistogram /\ [][NextHistogram]_vars

InitToolLimit ==
    /\ cfg \in ToolLimitConfigs
    /\ now = 1
    /\ clients = [c \in ClientIds |-> RateLimitState]
    /\ admitted = 0
    /\ calls = NoCalls
    /\ initialized = FALSE
    /\ session = NewSession
    /\ slots = [s \in SlotIds |-> IdleSlot]
    /\ registry = EmptyRegistry
    /\ orch = OrchIdle
    /\ cli = NoClient
    /\ wire = NoWire
    /\ hub = NoHub
    /\ execution = NoExecution
    /\ trust = NoAssessor
    /\ confirms = NoManager
    /\ hist = NoHistogram
    /\ gate = NewGate

NextToolLimit ==
    \/ \E tool \in CalledTools : HardenedToolsCall(tool)
    \/ GateTick

\* tools/call frames of one client through a hardened server whose
\* RateLimitConfig has tool_limits.
SpecToolLimit == InitToolLimit /\ [][NextToolLimit]_vars

InitBatch ==
    /\ cfg = CHOOSE c \in Configs : c.kind = "core"
    /\ now = 1
    /\ clients = [c \in ClientIds |-> RateLimitState]
    /\ admitted = 0
    /\ calls = NoCalls
    /\ initialized = FALSE
    /\ session = NewSession
    /\ slots = [s \in SlotIds |-> IdleSlot]
    /\ registry = EmptyRegistry
    /\ orch = OrchIdle
    /\ cli = NoClient
    /\ wire = NoWire
    /\ hub = NoHub
    /\ trust = NoAssessor
    /\ confirms = NoManager
    /\ hist = NoHistogram
    /\ gate = NoGate
    /\ execution \in {NewBatch(r) : r \in 1..MaxExecRetries}

NextBatch ==
    \/ \E k \in TaskIds : execute_start(k)
    \/ \E k \in TaskIds, outcome \in BatchOutcomes : execute_resume(k, outcome)

\* Two execute() calls gathered on one ToolExecutor.
SpecBatch == InitBatch /\ [][NextBatch]_vars

InitHub ==
    /\ cfg = CHOOSE c \in Configs : c.kind = "core"
    /\ now = 1
    /\ clients = [c \in ClientIds |-> RateLimitState]
    /\ admitted = 0
    /\ calls = NoCalls
    /\ initialized = FALSE
    /\ session = NewSession
    /\ slots = [s \in SlotIds |-> IdleSlot]
    /\ registry = EmptyRegistry
    /\ orch = OrchIdle
    /\ cli = NoClient
    /\ wire = NoWire
    /\ hub = EmptyHub
    /\ trust = NoAssessor
    /\ confirms = NoManager
    /\ hist = NoHistogram
    /\ gate = NoGate
    /\ execution = NoExecution

NextHub ==
    \/ \E server \in SubServers, prefix \in HubPrefixes : RegisterHub(server, prefix)
    \/ \E call \in ToolCalls : CallToolHub(call)
    \/ \E uri \in Uris : ReadResourceHub(uri)

\* A registry, the servers registered with it, and calls routed through it.
SpecHub == InitHub /\ [][NextHub]_vars

NextHubUnregister ==
    \/ \E server \in SubServers, prefix \in HubPrefixes : RegisterHub(server, prefix)
    \/ \E name \in HubNames : UnregisterHub(name)
    \/ \E call \in ToolCalls : CallToolHub(call)

\* A registry whose servers are registered and unregistered.
SpecHubUnregister == InitHub /\ [][NextHubUnregister]_vars

InitWire ==
    /\ cfg = CHOOSE c \in Configs : c.kind = "core"
    /\ now = 1
    /\ clients = [c \in ClientIds |-> RateLimitState]
    /\ admitted = 0
    /\ calls = NoCalls
    /\ initialized = FALSE
    /\ session = NewSession
    /\ slots = [s \in SlotIds |-> IdleSlot]
    /\ registry = EmptyRegistry
    /\ orch = OrchIdle
    /\ cli = NoClient
    /\ wire \in {NewWire(t, k) : t \in {"stdio", "websocket"},
                                 k \in {"core", "hardened", "registry"}}
    /\ hub = NoHub
    /\ trust = NoAssessor
    /\ confirms = NoManager
    /\ hist = NoHistogram
    /\ gate = NoGate
    /\ execution = NoExecution

NextWire ==
    \/ \E msg \in WireMessages : PeerSend(msg)
    \/ _read_loop

\* One connection of a stdio or websocket transport whose handler is a
\* core server, a hardened server or a registry.
SpecWire == InitWire /\ [][NextWire]_vars

\* One connected client, its callers, its reader task and its peer.
SpecClient == InitClient /\ [][NextClient]_vars

-----------------------------------------------------------------------------
(* Properties *)

\* The handle_message invocations that have returned.
Done == {s \in SlotIds : slots[s].pc = "done"}

\* C1: every request frame with a non-null id that a core or hardened
\* server has handled was answered with exactly one response frame, and that
\* frame carries the request's id, whatever the outcome.
C1_OneResponseSameId ==
    \A s \in Done :
        (cfg.kind \in {"core", "hardened"} /\ slots[s].frame.id # NoId)
        => /\ Len(slots[s].out) = 1
           /\ slots[s].out[1].id = slots[s].frame.id

\* A request of the hardened server ran into the request timeout and was
\* answered once, under its own id.
C1_Witness ==
    \E s \in Done :
        /\ cfg.kind = "hardened"
        /\ slots[s].frame.id = "r2"
        /\ slots[s].timed_out
        /\ slots[s].out = <<ErrorResponse("r2", TIMEOUT)>>

\* C2: a notification (id absent or null) never causes a response frame:
\* the core server, the hardened server and the registry return nothing for
\* it, also when the client is rate-limited or the method is unknown.
C2_NoResponseToNotification ==
    \A s \in Done :
        slots[s].frame.id = NoId => slots[s].out = <<>>

\* C11: a frame that a server handles on a connection after that
\* connection's shutdown request was handled is rejected: no method handler
\* is dispatched for it, no registered handler runs, and a request among
\* them is answered with an error.
C11_RejectAfterShutdown ==
    \A s \in Done :
        (cfg.kind \in {"core", "hardened"} /\ slots[s].pre_shutdown)
        => /\ ~slots[s].dispatched
           /\ slots[s].ran = {}
           /\ slots[s].frame.id # NoId
              => /\ Len(slots[s].out) = 1
                 /\ slots[s].out[1].code # 0

\* C12: the lifecycle flag and the client info a server holds while it
\* serves a connection are the ones that connection's own initialize,
\* 'initialized' and shutdown frames produced: another open connection's
\* frames do not change them.
C12_LifecyclePerConnection ==
    \A k \in cfg.inflight :
        /\ initialized = session.own[k].initialized
        /\ session.client_info = session.own[k].client_info

\* C13: in every state of an orchestrator run retry_count is at most
\* max_retries, and the state a run ends with has status complete or failed.
C13_RetryBounded ==
    orch.node # "none"
    => /\ orch.retry_count <= orch.max_retries
       /\ orch.node = "end" => orch.status \in {"complete", "failed"}

\* A run used up its retries and ended failed.
C13_Witness ==
    /\ orch.node = "end"
    /\ orch.max_retries >= 1
    /\ orch.retry_count = orch.max_retries
    /\ orch.status = "failed"

\* C14: the status a run ends with is complete exactly when
\* verification_passed holds in the state summarize is entered with; and the
\* execute node, whether its tool call returned or raised, hands over to
\* execute, confirm or verify: it never ends the run.
C14_VerificationDecides ==
    [][ /\ (orch.node = "summarize" /\ orch'.node = "end")
           => (orch'.status = "complete" <=> orch.verification_passed)
        /\ (orch.node = "execute")
           => orch'.node \in {"execute", "confirm", "verify"} ]_vars

\* A run in which a tool step failed and verification passed ended complete.
C14_Witness ==
    /\ orch.node = "end"
    /\ orch.errors # <<>>
    /\ orch.verification_passed
    /\ orch.status = "complete"

\* C15: when the confirm node ends with the confirmation not approved (the
\* manager denied it, or no manager is configured), the graph goes from
\* confirm to summarize and no tool is invoked on the way; the run that
\* then ends, ends with status failed.
C15_DeniedGoesToSummarize ==
    [][ /\ ( /\ orch.node = "confirm"
             /\ orch'.node # "raised"
             /\ orch'.user_approved # <<TRUE>> )
           => /\ orch'.node = "summarize"
              /\ orch'.invoked = orch.invoked
              /\ orch'.current_step = orch.current_step
        /\ ( /\ orch.node = "summarize"
             /\ orch.user_approved = <<FALSE>>
             /\ orch'.node = "end" )
           => /\ orch'.status = "failed"
              /\ orch'.invoked = orch.invoked
              /\ orch'.current_step = orch.current_step ]_vars

\* With no confirmation manager and retries left, a run was denied with a
\* plan step still pending, and ended failed without executing it.
C15_Witness ==
    /\ orch.node = "end"
    /\ orch.manager = "none"
    /\ orch.user_approved = <<FALSE>>
    /\ orch.retry_count < orch.max_retries
    /\ orch.current_step < Len(orch.plan)
    /\ Len(orch.tool_calls) = orch.current_step
    /\ orch.status = "failed"

C17_NodeExceptionsHandled ==
    orch.node # "none" => orch.node # "raised"

\* C18: the retry node hands the planner a state with plan, tool_calls and
\* tool_results empty and current_step 0, and with errors as they were
\* before the retry.
C18_RetryKeepsErrors ==
    [][ (orch.node = "retry" /\ orch'.node = "plan")
        => /\ orch'.plan = <<>>
           /\ orch'.current_step = 0
           /\ orch'.tool_calls = <<>>
           /\ orch'.tool_results = <<>>
           /\ orch'.errors = orch.errors ]_vars

\* The planner is re-entered after a retry with the error of the failed
\* step on record and the execution state reset.
C18_Witness ==
    /\ orch.node = "plan"
    /\ orch.retry_count = 1
    /\ orch.errors = <<[step_id |-> 1, error_type |-> "Exception"]>>
    /\ orch.plan = <<>>
    /\ orch.current_step = 0
    /\ orch.tool_calls = <<>>
    /\ orch.tool_results = <<>>

\* C19: a check_limit made within cooldown_seconds of the client's latest
\* denial for lack of tokens is denied, whatever the tokens a refill would
\* give by then.
C19_CooldownTakesPrecedence ==
    \A c \in ClientIds :
        (calls.of[c].last # <<>> /\ calls.of[c].last[1].cooling)
        => ~calls.of[c].last[1].allowed

\* A check made one second after a denial for lack of tokens, when a refill
\* gives a token again, was denied: the cooldown of two seconds is running.
C19_Witness ==
    \E c \in ClientIds :
        /\ calls.of[c].last # <<>>
        /\ calls.of[c].last[1].cooling
        /\ calls.of[c].last[1].refilled >= 1
        /\ calls.of[c].last[1].at = calls.of[c].short[1] + 1
        /\ ~calls.of[c].last[1].allowed

\* C20: no client has more than requests_per_minute requests admitted in
\* any interval of 60 seconds: of requests_per_minute + 1 admitted requests
\* the last comes at least 60 seconds after the first.
C20_SlidingWindow ==
    \A c \in ClientIds :
        Len(calls.of[c].admits) = cfg.requests_per_minute + 1
        => calls.of[c].admits[Len(calls.of[c].admits)] - calls.of[c].admits[1]
              >= WindowSeconds

\* C3: a non-lifecycle request handled by a server before the 'initialized'
\* notification is rejected with invalid-request and is not dispatched to
\* its method handler.
C3_RejectBeforeInitialized ==
    \A s \in Done :
        ( /\ cfg.kind \in {"core", "hardened"}
          /\ ~slots[s].limited
          /\ ~slots[s].denied
          /\ slots[s].frame.id # NoId
          /\ slots[s].frame.method \in NonLifecycle
          /\ ~slots[s].pre_inited )
        => /\ slots[s].out = <<ErrorResponse(slots[s].frame.id, INVALID_REQUEST)>>
           /\ ~slots[s].dispatched

\* C4: a tools/call that reaches call_tool (core server, hardened server,
\* registry) yields a ToolResult and no exception: the request is answered
\* with a result, or with the hardened server's timeout, never with an
\* internal error; when no handler ran or the handler raised, the ToolResult
\* has isError set and carries a message.
C4_CallToolAlwaysToolResult ==
    \A s \in Done :
        (slots[s].frame.method = "tools/call" /\ slots[s].dispatched)
        => /\ ~slots[s].raised
           /\ Len(slots[s].out) = 1
           /\ slots[s].out[1].code = (IF slots[s].timed_out THEN TIMEOUT ELSE 0)
           /\ ~slots[s].timed_out
              => /\ slots[s].out[1].tool # <<>>
                 /\ ( \/ slots[s].ran = {}
                      \/ \E t \in slots[s].ran : HandlerOutcome(t) = "raise" )
                    => /\ slots[s].out[1].tool[1].is_error
                       /\ slots[s].out[1].tool[1].text # ""

\* The registry routed "fs.boom" to the server registered under "fs", the
\* handler raised, and the caller got a ToolResult with isError set.
C4_Witness ==
    \E s \in Done :
        /\ cfg.kind = "registry"
        /\ slots[s].frame.name = "fs.boom"
        /\ slots[s].ran = {"boom"}
        /\ Len(slots[s].out) = 1
        /\ slots[s].out[1].tool = <<[is_error |-> TRUE, text |-> "handler error"]>>

\* C5: every tool invocation of an orchestrator run whose (tool, arguments)
\* a risk assessor as constructed puts at or above its threshold, and does
\* not trust, was made after a confirmation had been approved.
C5_RiskyStepsConfirmed ==
    \A i \in orch.invoked :
        assess(DefaultAssessor, i.tool, i.args) => i.approved

\* C6: the requests of one client that are checked, admitted and dispatched
\* while no token is refilled never outnumber the tokens available: at most
\* burst_capacity of them.
C6_AdmittedWithinBurst ==
    admitted <= cfg.burst_capacity

\* C7: every client's token count stays within 0 .. burst_capacity.
C7_TokensInRange ==
    \A c \in ClientIds :
        /\ clients[c].tokens >= 0
        /\ clients[c].tokens <= cfg.burst_capacity

\* The tool, known to the server, is called with arguments that its
\* inputSchema rejects.
InvalidCall(s) ==
    /\ cfg.kind = "hardened"
    /\ slots[s].frame.method = "tools/call"
    /\ slots[s].dispatched
    /\ slots[s].frame.name \in Tools
    /\ validate(InputSchema(slots[s].frame.name), slots[s].frame.args) # {}

\* C8, as stated: every hardened tool call whose arguments fail validation
\* leaves the handler uninvoked and yields a ToolResult with isError set.
C8_InvalidNeverInvoked ==
    \A s \in Done :
        InvalidCall(s)
        => /\ slots[s].ran = {}
           /\ slots[s].out[1].tool # <<>>
           /\ slots[s].out[1].tool[1].is_error

\* C8, amended: on a hardened server with validate_inputs enabled, every
\* tool call whose arguments fail validation leaves the handler uninvoked
\* and yields a ToolResult with isError set.
C8_InvalidNeverInvokedWhenValidating ==
    \A s \in Done :
        (InvalidCall(s) /\ cfg.validate_inputs)
        => /\ slots[s].ran = {}
           /\ slots[s].out = <<ResultResponse(slots[s].frame.id,
                                  <<[is_error |-> TRUE, text |-> "Validation error"]>>)>>

\* echo was called with an integer 'message' on a validating server: the
\* handler did not run and the result has isError set.
C8_Witness ==
    \E s \in Done :
        /\ InvalidCall(s)
        /\ cfg.validate_inputs
        /\ slots[s].frame.name = "echo"
        /\ slots[s].frame.args = {<<"message", "integer">>}
        /\ slots[s].ran = {}
        /\ slots[s].out[1].tool[1].is_error

\* The caller's role does not allow the tool the tools/call names: the
\* caller is unauthenticated, lacks tools:call, the tool is on the denylist,
\* or it is absent from the allowlist the role has.
NotAllowed(frame) ==
    LET ctx == authenticate(frame.cred)
    IN  /\ frame.method = "tools/call"
        /\ \/ ~ctx.authenticated
           \/ "tools:call" \notin ctx.role[1].permissions
           \/ frame.name \in ctx.role[1].tool_blacklist
           \/ /\ ctx.role[1].tool_whitelist # <<>>
              /\ frame.name \notin ctx.role[1].tool_whitelist[1]

\* C9: a tools/call the caller's role does not allow, once past the rate
\* limiter, is answered with permission-denied and nothing is dispatched:
\* no tool handler runs.
C9_DeniedNeverDispatched ==
    \A s \in Done :
        (cfg.kind = "hardened" /\ ~slots[s].limited /\ NotAllowed(slots[s].frame))
        => /\ slots[s].out = <<ErrorResponse(slots[s].frame.id, PERMISSION_DENIED)>>
           /\ ~slots[s].dispatched
           /\ slots[s].ran = {}

\* A caller whose role has 'boom' on the denylist (and on the allowlist)
\* called it and was answered with permission-denied.
C9_Witness ==
    \E s \in Done :
        /\ cfg.kind = "hardened"
        /\ slots[s].frame.method = "tools/call"
        /\ slots[s].frame.cred = "restricted"
        /\ slots[s].frame.name = "boom"
        /\ slots[s].frame.id = "r1"
        /\ slots[s].out = <<ErrorResponse("r1", PERMISSION_DENIED)>>

\* C10: every request the rate limiter rejects is answered with code -32029
\* and a positive data.retryAfter, and is not dispatched.
C10_RetryAfterPositive ==
    \A s \in Done :
        slots[s].limited
        => /\ Len(slots[s].out) = 1
           /\ slots[s].out[1].code = RATE_LIMITED
           /\ slots[s].out[1].retry_after # <<>>
           /\ slots[s].out[1].retry_after[1] > 0
           /\ ~slots[s].dispatched
           /\ slots[s].ran = {}

\* C21: a frame whose id is in the pending table completes that future
\* exactly once: no request the reader has completed keeps an entry in
\* _pending_requests that a further frame matches, so the reader never
\* tries to complete a future it has completed already.
C21_CompletedExactlyOnce ==
    ~(cli.reader = "crashed" /\ cli.crash_on \in {"result", "exception"})

\* C22: a response that arrives for a request whose wait has expired is
\* dropped: it neither stops the reader task nor touches another request.
C22_LateResponseDropped ==
    ~(cli.reader = "crashed" /\ cli.crash_on = "cancelled")

\* C23: once disconnect() has returned, the pending table is empty and no
\* caller is left waiting on a request.
C23_DisconnectLeavesNothingPending ==
    cli.disconnect = "returned" =>
        \A i \in 1..Len(cli.requests) :
            ~cli.requests[i].entry /\ cli.requests[i].caller # "waiting"

\* C24: within one connection requests are serviced in the order received:
\* what the transport has written answers the messages in the order they
\* arrived, at most one response each, and every response the handler
\* returned for a well-formed frame carries the id of the request it answers.
C24_ResponsesInRequestOrder ==
    /\ \A k, l \in 1..Len(wire.outbox) :
          k < l => wire.outbox[k].request.seq < wire.outbox[l].request.seq
    /\ \A k \in 1..Len(wire.outbox) :
          /\ wire.outbox[k].request.msg.shape = "object"
          /\ ~wire.outbox[k].by_transport
          => wire.outbox[k].response.id = wire.outbox[k].request.msg.id
    /\ \A k \in 1..Len(wire.inbox), l \in 1..Len(wire.outbox) :
          wire.outbox[l].request.seq < wire.inbox[k].seq

\* Two requests with different ids were waiting together and both have been
\* answered.
C24_Witness ==
    /\ Len(wire.outbox) >= 2
    /\ wire.sent >= 2
    /\ \E k, l \in 1..Len(wire.outbox) :
          /\ k < l
          /\ wire.outbox[k].request.msg.shape = "object"
          /\ wire.outbox[l].request.msg.shape = "object"
          /\ wire.outbox[k].response.id = "r1"
          /\ wire.outbox[l].response.id = "r2"

\* C25: no exception crosses the JSON-RPC boundary: whatever frame arrives,
\* the handler returns and nothing is raised into the transport.
C25_NoExceptionReachesTransport ==
    wire.escaped = <<>>

\* C26: once a server is registered under prefix p, a call of p.t through
\* the registry is the call of t on that server: the same handler invoked
\* once with the same arguments and call id, and the same ToolResult.
C26_PrefixedCallIsSubServerCall ==
    hub.last.kind = "tool" =>
        LET call == hub.last.call
            under == {i \in 1..Len(hub.history) :
                        /\ hub.history[i].prefixed
                        /\ hub.history[i].name = Head(call.tool_name)}
            latest == CHOOSE i \in under : \A j \in under : j <= i
        IN  Len(call.tool_name) = 2 /\ under # {} =>
                hub.last.got =
                    server_call_tool(hub.history[latest].server,
                                     [tool_name |-> Tail(call.tool_name),
                                      arguments |-> call.arguments,
                                      call_id |-> call.call_id])

\* p.t was called through the registry and the handler of t ran on the
\* server registered under p.
C26_Witness ==
    /\ hub.last.kind = "tool"
    /\ hub.last.call.tool_name = <<"p", "t">>
    /\ hub.last.call.call_id = "c2"
    /\ hub.last.got.invoked # <<>>
    /\ hub.last.got.invoked[1].tool = <<"t">>
    /\ hub.last.got.invoked[1].server = "beta"
    /\ \E i \in 1..Len(hub.history) : hub.history[i].server = "alpha"

C28_LongestPrefixServes ==
    hub.last.kind = "resource" =>
        LET uri == hub.last.uri
            matching == {i \in 1..Len(hub.resource_routes) :
                            startswith(uri, hub.resource_routes[i][1])}
            longest == CHOOSE i \in matching : \A j \in matching :
                            Len(hub.resource_routes[j][1]) <= Len(hub.resource_routes[i][1])
        IN  IF matching = {}
            THEN hub.last.got.routed = <<>> /\ hub.last.got.not_found
            ELSE hub.last.got.routed = <<hub.servers[hub.resource_routes[longest][2]]>>

\* C29: an attempt that fails with an error classified FATAL ends the retry
\* loop: it is the last attempt, the backend is not invoked again, and the
\* result has success = false.
C29_FatalStopsRetrying ==
    \A i \in 1..Len(execution.history) :
        execution.history[i].category = "fatal" =>
            /\ i = Len(execution.history)
            /\ execution.calls = execution.history[i].attempt
            /\ execution.pc = "returned"
            /\ ~execution.result[1].success

\* With max_retries = 3, the first attempt failed on a fatal error and the
\* call has returned.
C29_Witness ==
    /\ execution.pc = "returned"
    /\ execution.max_retries = 3
    /\ execution.calls = 1
    /\ Len(execution.history) = 1
    /\ execution.history[1].category = "fatal"
    /\ execution.history[1].message = "File not found"
    /\ ~execution.result[1].success

\* C30: execute invokes the backend at most max_retries times per call,
\* stops at the first success, and reports as attempts the index of the
\* attempt that succeeded.
C30_AtMostMaxRetriesStopsAtSuccess ==
    /\ execution.pc # "none" => execution.calls <= execution.max_retries
    /\ execution.pc = "returned" /\ execution.result[1].success =>
          /\ execution.result[1].attempts = execution.calls
          /\ Len(execution.history) = execution.calls - 1
    /\ execution.pc = "running" => execution.calls = Len(execution.history)

\* max_retries = 3: the first attempt failed on a transient error, the
\* second succeeded, and the result says success with attempts = 2.
C30_Witness ==
    /\ execution.pc = "returned"
    /\ execution.max_retries = 3
    /\ execution.result[1].success
    /\ execution.result[1].attempts = 2
    /\ execution.calls = 2
    /\ execution.history[1].category = "transient"
    /\ execution.history[1].message = "Temporary network error"

\* C32: when an attempt fails with an error classified UNKNOWN, an LLM is
\* configured and attempts remain, the LLM is asked for repaired arguments
\* and another attempt follows.
C32_UnknownErrorAsksLLM ==
    \A i \in 1..Len(execution.history) :
        /\ execution.history[i].category = "unknown"
        /\ execution.llm
        /\ execution.history[i].attempt < execution.max_retries
        => /\ execution.history[i].asked
           /\ i = Len(execution.history) => execution.pc = "running"

\* C31: when execute returns success = false, the error it reports is the
\* error of the last attempt that same call made and attempts is the number
\* of attempts that call made, also when calls run concurrently on one
\* executor.
C31_FailureReportsOwnLastAttempt ==
    execution.pc = "batch" =>
        \A k \in TaskIds :
            LET t == execution.tasks[k]
            IN  t.pc = "returned" /\ ~t.result[1].success =>
                    /\ t.result[1].error = <<t.own[Len(t.own)]>>
                    /\ t.result[1].attempts = Len(t.own)


\* C33: an assess call says that confirmation is required exactly when
\* the level is at or above the threshold and the call is not trusted,
\* where trusted means that the tool was last trusted rather than untrusted
\* or that a trust rule matches; and once a tool has been untrusted, assess
\* says of it, for every arguments value, what it said before the tool was
\* trusted.
C33_RequiresConfirmation ==
    trust.pc = "assessor" =>
        /\ trust.last # <<>> =>
              LET a == trust.last[1]
                  trusted ==
                      \/ trust.asked[a.tool] = "trust"
                      \/ \E rule \in trust.trust_rules : _matches_rule(rule, a.tool, a.args)
              IN  a.requires_confirmation
                      = ( /\ _level_to_int(a.level)
                                >= _level_to_int(trust.confirmation_threshold)
                          /\ ~trusted )
        /\ \A t \in RiskTools :
              trust.asked[t] = "untrust" /\ trust.before[t] # <<>> =>
                  \A args \in ArgKinds : assess(trust, t, args) = trust.before[t][1][args]

\* A tool that required confirmation was trusted, then untrusted, and the
\* assess call that followed required confirmation again.
C33_Witness ==
    /\ trust.pc = "assessor"
    /\ trust.last # <<>>
    /\ LET a == trust.last[1]
       IN  /\ trust.asked[a.tool] = "untrust"
           /\ trust.before[a.tool] # <<>>
           /\ trust.before[a.tool][1][a.args]
           /\ a.requires_confirmation


\* C37: the level an assess call reports, which is the one get_risk
\* returns, is never below the level the base table gives the tool.
C37_ElevationNeverLowers ==
    trust.pc = "assessor" /\ trust.last # <<>> =>
        _level_to_int(trust.last[1].level) >= _level_to_int(base_risk(trust.last[1].tool))


\* C34: at no time are two request_confirmation calls of one manager both
\* waiting for the answer to their prompt.
C34_OnePromptAtATime ==
    confirms.pc = "manager" =>
        Cardinality({k \in ConfirmationCalls : confirms.of[k].pc = "prompting"}) <= 1

\* C38: once a request_confirmation call has ended, by returning or by
\* raising, its request is not pending and is in the history exactly once.
C38_EndedRequestInHistoryOnce ==
    confirms.pc = "manager" =>
        \A k \in ConfirmationCalls :
            confirms.of[k].pc \in {"returned", "raised"} =>
                /\ confirms.of[k].id \notin confirms._pending
                /\ Cardinality({i \in 1..Len(confirms._history) :
                                    confirms._history[i].id = confirms.of[k].id}) = 1


RECURSIVE Total(_)
\* The sum of a sequence of numbers.
Total(seq) == IF seq = <<>> THEN 0 ELSE seq[1] + Total(Tail(seq))

\* C35: a histogram's count is the number of observations made and its sum
\* their total, and of two get_percentile calls on the same observations
\* the one with the lower percentile never returns the higher value.
C35_CountSumAndMonotonePercentile ==
    hist.pc = "histogram" =>
        /\ hist._count = Len(hist.observed)
        /\ hist._sum = Total(hist.observed)
        /\ \A i, j \in 1..Len(hist.asked) :
              hist.asked[i].percentile <= hist.asked[j].percentile
                  => hist.asked[i].value <= hist.asked[j].value

\* After three observations, one of them above every bucket, the median
\* and the 99th percentile were asked for and the median is the lower.
C35_Witness ==
    /\ hist.pc = "histogram"
    /\ Len(hist.observed) = 3
    /\ \E i \in 1..3 : hist.observed[i] > hist.buckets[Len(hist.buckets)]
    /\ Len(hist.asked) = 2
    /\ hist.asked[1].percentile = 50
    /\ hist.asked[2].percentile = 99
    /\ hist.asked[1].value < hist.asked[2].value


C39_ToolLimitEnforced ==
    gate.pc = "gate" =>
        \A tool \in DOMAIN cfg.tool_limits :
            Cardinality({i \in 1..Len(gate.admits[tool]) :
                            now - gate.admits[tool][i] < WindowSeconds})
                <= cfg.tool_limits[tool]


\* C40: right after unregister_server(name) nothing is routed to name, and
\* every tool of every server still registered is served by that server
\* when called by the server's name and its own, and, when no other server
\* still registered has a tool of that name, when called by its own name.
C40_UnregisterLeavesOthersCallable ==
    hub # NoHub /\ hub.last.kind = "unregister" =>
        /\ hub.last.name \notin DOMAIN hub.servers
        /\ \A k \in DOMAIN hub.tool_routes : hub.tool_routes[k] # hub.last.name
        /\ \A n \in DOMAIN hub.servers :
              \A t \in server_tools(hub.servers[n]) :
                  LET served(got) ==
                          /\ got.invoked # <<>>
                          /\ got.invoked[1].server = hub.servers[n]
                          /\ got.invoked[1].tool = t
                  IN  /\ served(hub_call_tool(hub, NamedCall(<<n>> \o t)))
                      /\ (\A o \in DOMAIN hub.servers \ {n} :
                              t \notin server_tools(hub.servers[o]))
                            => served(hub_call_tool(hub, NamedCall(t)))

====
